---- MODULE Spec2Model ----
(***************************************************************************)
(* Viban: the Kanban board engine (src/board/board.ts), its JSON task      *)
(* store (src/board/storage.ts), the per-project configuration store       *)
(* (src/config/config.ts) and the adapter entry points that hand caller    *)
(* data to the engine (src/web-server.ts, src/mcp-server.ts).              *)
(* In the source tree the text of web-server.ts follows README.md (from    *)
(* its line 214), config.ts and global-config.ts follow test/board.test.ts *)
(* (from its lines 207 and 303), and types.ts is unnamed/part_000.         *)
(*                                                                         *)
(* Values.  A JavaScript object is a function from property names to       *)
(* values.  Strings are strings, the id of a task and the timestamps are   *)
(* integers (new Date().toISOString() is a fixed-width UTC string, so its  *)
(* lexicographic order is the order of the clock).  UNDEF is the           *)
(* JavaScript value undefined; a property that is not in the DOMAIN of an  *)
(* object reads as UNDEF.  A file is a sequence of length at most one:     *)
(* <<>> when the path does not exist, <<content>> when it does.            *)
(***************************************************************************)
EXTENDS Integers, Sequences, FiniteSets, TLC

\* The number of calls (requests, tool invocations, engine calls) in a run.
MaxCalls == 2

VARIABLES
    configFile,   \* <project>/.config-viban.yml
    taskFiles,    \* <project>/<name>, for every name a config can select
    clock,        \* the system clock (new Date()), non-decreasing
    uuidCount,    \* how many ids uuidv4() has produced
    issued,       \* the ids createTask has returned so far
    calls,        \* how many calls were made
    last,         \* the last call: its arguments, its result, the disk before it
    globalFile,   \* <home>/.viban-global.yml, the registry of projects
    tempFile,     \* <project>/<name>.tmp, the file saveTasks writes and renames
    partial,      \* the files that hold a part of what a writer is writing
    procs,        \* the server processes, each at a step of a store call
    dirs,         \* the project directories the web server is pointed at
    server,       \* the fields projectPath and board of the WebServer
    client        \* the page in the browser: what it shows, its poll hash

vars == <<configFile, taskFiles, clock, uuidCount, issued, calls, last,
          globalFile, tempFile, partial, procs, dirs, server, client>>

----------------------------------------------------------------------------
\* JavaScript values and objects

UNDEF == "undefined"

\* The properties that hold integers in the model; they are never undefined.
IntegerProps == {"id", "createdAt", "updatedAt"}

\* obj.k
Get(obj, k) == IF k \in DOMAIN obj THEN obj[k] ELSE UNDEF

\* !v for the values of the model: undefined and the empty string are falsy.
Falsy(v) == v \in {UNDEF, ""}

\* a || b
OrElse(a, b) == IF Falsy(a) THEN b ELSE a

\* { ...under, ...over }: the properties of over win, also when undefined.
Spread(under, over) == over @@ under

\* The one element of a set of one.  In The({e(x) : x \in {v}}) the value v
\* is computed once, however often e uses it.
The(S) == CHOOSE x \in S : TRUE

\* The object with no property.
EmptyObject == [k \in {} |-> UNDEF]

\* Mutant of JsonObject: no property with a falsy value is written.
JsonObjectTruthy(obj) ==
    LET keep == {k \in DOMAIN obj : k \in IntegerProps \/ ~Falsy(obj[k])}
    IN  [k \in keep |-> obj[k]]

\* JSON.parse(JSON.stringify(obj)): a property whose value is undefined is
\* not written.
JsonObject(obj) ==
    LET keep == {k \in DOMAIN obj : k \in IntegerProps \/ obj[k] # UNDEF}
    IN  [k \in keep |-> obj[k]]

\* JSON.parse(JSON.stringify(tasks)) of an array of objects.
JsonArray(tasks) == [i \in 1..Len(tasks) |-> JsonObject(tasks[i])]

\* Array.prototype.findIndex(t => t.id === taskId); 0 stands for -1.
FindIndex(tasks, taskId) ==
    LET hits == {i \in 1..Len(tasks) : Get(tasks[i], "id") = taskId}
    IN  IF hits = {} THEN 0 ELSE CHOOSE i \in hits : \A j \in hits : i <= j

\* Array.prototype.splice(index, 1)
Splice(tasks, index) ==
    [i \in 1..(Len(tasks) - 1) |-> IF i < index THEN tasks[i] ELSE tasks[i + 1]]

----------------------------------------------------------------------------
\* Types (src/board/types.ts)

COLUMNS == <<"backlog", "todo", "review", "done">>

ColumnType == {COLUMNS[i] : i \in 1..Len(COLUMNS)}

Priority == {"low", "medium", "high"}

----------------------------------------------------------------------------
\* Files

Absent == <<>>

File(content) == <<content>>

Exists(file) == file # <<>>

Content(file) == file[1]

\* A file whose document is not of the expected structure (a mapping for a
\* YAML file, an array for the task file).  kind says what it is instead;
\* props are the own properties a spread of the parsed value copies.
Document(props, kind) == <<props, kind>>

\* The parser (yaml.parse, JSON.parse) accepts the text of the file.
Parses(file) == Len(file) = 1 \/ file[2] # "text"

\* The document is of the expected structure.
Structured(file) == Len(file) = 1

CONFIG_FILENAME == ".config-viban.yml"

\* The names a task file can have.
TaskFileNames == {"tasks.json"}

DEFAULT_CONFIG == [boardName |-> "Kanban Board", tasksFile |-> "tasks.json"]

----------------------------------------------------------------------------
\* Configuration store (src/config/config.ts).  A disk is the pair of the
\* config file and the task files of the project.

\* yaml.parse(yaml.stringify(obj)): a key whose value is undefined is not
\* written; strings come back as the strings they were.
YamlObject(obj) ==
    LET keep == {k \in DOMAIN obj : k \in IntegerProps \/ obj[k] # UNDEF}
    IN  [k \in keep |-> obj[k]]

\* saveConfig: writeFileSync of the YAML text.
saveConfig(disk, config) == [disk EXCEPT !.config = File(YamlObject(config))]

\* Mutant of loadConfig: every load stamps createdAt anew and saves.
loadConfigRestamped(disk, now) ==
    LET config == Spread(Spread(DEFAULT_CONFIG,
                                IF Exists(disk.config) THEN Content(disk.config)
                                ELSE EmptyObject),
                         [createdAt |-> now])
    IN  [disk |-> saveConfig(disk, config), config |-> config,
         readClock |-> TRUE, err |-> "none"]

\* loadConfig: the config returned and the config file afterwards.  The
\* parsed value is spread over the defaults whatever it is; only a text
\* that yaml.parse refuses is an error.
loadConfig(disk, now) ==
    IF ~Exists(disk.config)
    THEN LET config == Spread(DEFAULT_CONFIG, [createdAt |-> now])
         IN  [disk |-> saveConfig(disk, config),
              config |-> config, readClock |-> TRUE, err |-> "none"]
    ELSE IF ~Parses(disk.config)
    THEN [disk |-> disk, config |-> EmptyObject, readClock |-> FALSE,
          err |-> "Failed to parse config file: " \o CONFIG_FILENAME]
    ELSE [disk |-> disk,
          config |-> Spread(DEFAULT_CONFIG, Content(disk.config)),
          readClock |-> FALSE, err |-> "none"]

\* Mutant of updateConfig: the current values win over the updates.
updateConfigKeepsCurrent(disk, updates, now) ==
    LET lc == loadConfig(disk, now)
        updated == Spread(updates, lc.config)
    IN  IF lc.err # "none"
        THEN [disk |-> lc.disk, config |-> EmptyObject, readClock |-> lc.readClock,
              err |-> lc.err]
        ELSE [disk |-> saveConfig(lc.disk, updated), config |-> updated,
              readClock |-> lc.readClock, err |-> "none"]

\* updateConfig: { ...current, ...updates } is saved and returned.
updateConfig(disk, updates, now) ==
    LET lc == loadConfig(disk, now)
        updated == Spread(lc.config, updates)
    IN  IF lc.err # "none"
        THEN [disk |-> lc.disk, config |-> EmptyObject, readClock |-> lc.readClock,
              err |-> lc.err]
        ELSE [disk |-> saveConfig(lc.disk, updated), config |-> updated,
              readClock |-> lc.readClock, err |-> "none"]

----------------------------------------------------------------------------
\* Task store (src/board/storage.ts).  Every operation returns the disk it
\* leaves, whether it wrote the task file, whether it read the clock and the
\* error it threw ("none" when it returned).

getTasksPath(disk, now) ==
    The({ [disk |-> lc.disk, path |-> Get(lc.config, "tasksFile"),
           readClock |-> lc.readClock, err |-> lc.err]
          : lc \in {loadConfig(disk, now)} })

\* saveTasks: the temporary file is written and renamed over the task file.
saveTasks(disk, tasks, now) ==
    The({ IF tp.err # "none"
          THEN [disk |-> tp.disk, wrote |-> FALSE, readClock |-> tp.readClock,
                err |-> tp.err]
          ELSE [disk |-> [tp.disk EXCEPT !.tasks[tp.path] = File(JsonArray(tasks))],
                wrote |-> TRUE, readClock |-> tp.readClock, err |-> "none"]
          : tp \in {getTasksPath(disk, now)} })

\* Mutant of loadTasks: a task file that is not there is not created.
loadTasksNoCreate(disk, now) ==
    LET tp == getTasksPath(disk, now)
    IN  [disk |-> tp.disk,
         tasks |-> IF Exists(tp.disk.tasks[tp.path])
                   THEN Content(tp.disk.tasks[tp.path]) ELSE <<>>,
         wrote |-> FALSE, readClock |-> tp.readClock, err |-> "none"]

loadTasks(disk, now) ==
    The({ LET file == tp.disk.tasks[tp.path]
              failed(err) == [disk |-> tp.disk, tasks |-> <<>>, wrote |-> FALSE,
                              readClock |-> tp.readClock, err |-> err]
          IN  IF tp.err # "none" THEN failed(tp.err)
              ELSE IF ~Exists(file)
              THEN [disk |-> saveTasks(tp.disk, <<>>, now).disk, tasks |-> <<>>,
                    wrote |-> TRUE, readClock |-> tp.readClock, err |-> "none"]
              ELSE IF ~Parses(file)
              THEN failed("Invalid JSON in tasks file: " \o tp.path)
              ELSE IF ~Structured(file)
              THEN failed("Tasks file must contain an array")
              ELSE [disk |-> tp.disk, tasks |-> Content(file),
                    wrote |-> FALSE, readClock |-> tp.readClock, err |-> "none"]
          : tp \in {getTasksPath(disk, now)} })

----------------------------------------------------------------------------
\* Task store, continued: the operations on one task.  ret is the Task | null
\* a call returns (<<>> for null), bool the boolean deleteTask returns, err
\* the error thrown ("none" when the call returns).

Returned(disk, ret, bool, wrote, readClock) ==
    [disk |-> disk, ret |-> ret, bool |-> bool, err |-> "none",
     wrote |-> wrote, readClock |-> readClock]

\* A throw before anything was read or written.
Thrown(disk, err) ==
    [disk |-> disk, ret |-> <<>>, bool |-> FALSE, err |-> err,
     wrote |-> FALSE, readClock |-> FALSE]

\* The error of a failed load or save, thrown on to the caller.
Rethrown(failed) ==
    [Thrown(failed.disk, failed.err) EXCEPT !.wrote = failed.wrote,
                                            !.readClock = failed.readClock]

\* Mutant of storageUpdateTask: an unknown id makes a new task of the updates.
storageUpdateTaskUpsert(disk, taskId, updates, now) ==
    LET lt == loadTasks(disk, now)
        index == FindIndex(lt.tasks, taskId)
        task == Spread(Spread(IF index = 0 THEN [id |-> taskId] ELSE lt.tasks[index],
                              updates), [updatedAt |-> now])
        tasks == IF index = 0 THEN Append(lt.tasks, task)
                 ELSE [lt.tasks EXCEPT ![index] = task]
    IN  Returned(saveTasks(lt.disk, tasks, now).disk, <<task>>, TRUE, TRUE, TRUE)

storageUpdateTask(disk, taskId, updates, now) ==
    LET lt == loadTasks(disk, now)
        index == FindIndex(lt.tasks, taskId)
    IN  IF lt.err # "none" THEN Rethrown(lt)
        ELSE IF index = 0
        THEN Returned(lt.disk, <<>>, FALSE, lt.wrote, lt.readClock)
        ELSE LET task == Spread(Spread(lt.tasks[index], updates), [updatedAt |-> now])
                 tasks == [lt.tasks EXCEPT ![index] = task]
             IN  Returned(saveTasks(lt.disk, tasks, now).disk, <<task>>, TRUE, TRUE, TRUE)

storageDeleteTask(disk, taskId, now) ==
    LET lt == loadTasks(disk, now)
        index == FindIndex(lt.tasks, taskId)
    IN  IF lt.err # "none" THEN Rethrown(lt)
        ELSE IF index = 0
        THEN Returned(lt.disk, <<>>, FALSE, lt.wrote, lt.readClock)
        ELSE Returned(saveTasks(lt.disk, Splice(lt.tasks, index), now).disk,
                      <<>>, TRUE, TRUE, lt.readClock)

storageFindTask(disk, taskId, now) ==
    LET lt == loadTasks(disk, now)
        index == FindIndex(lt.tasks, taskId)
    IN  IF lt.err # "none" THEN Rethrown(lt)
        ELSE
        Returned(lt.disk, IF index = 0 THEN <<>> ELSE <<lt.tasks[index]>>,
                 index # 0, lt.wrote, lt.readClock)

----------------------------------------------------------------------------
\* Board engine (src/board/board.ts, class KanbanBoard)

\* uuidv4(): an id no earlier call produced; count ids were produced before.
uuidv4(count) == count + 1

\* Mutant of NewTaskId: the next position in the collection as the id.
NewTaskIdByLength(tasks, count) == Len(tasks) + 1

\* The id createTask gives a new task.
NewTaskId(tasks, count) == uuidv4(count)

\* Mutant of createTask: the new task goes to the front of the collection.
createTaskPrepend(disk, input, now, count) ==
    LET lt == loadTasks(disk, now)
        task == [id |-> NewTaskId(lt.tasks, count),
                 title |-> Get(input, "title"),
                 description |-> Get(input, "description"),
                 column |-> OrElse(Get(input, "column"), "backlog"),
                 priority |-> OrElse(Get(input, "priority"), "medium"),
                 createdAt |-> now,
                 updatedAt |-> now]
    IN  Returned(saveTasks(lt.disk, <<task>> \o lt.tasks, now).disk,
                 <<task>>, TRUE, TRUE, TRUE)

createTask(disk, input, now, count) ==
    LET lt == loadTasks(disk, now)
        task == [id |-> NewTaskId(lt.tasks, count),
                 title |-> Get(input, "title"),
                 description |-> Get(input, "description"),
                 column |-> OrElse(Get(input, "column"), "backlog"),
                 priority |-> OrElse(Get(input, "priority"), "medium"),
                 createdAt |-> now,
                 updatedAt |-> now]
    IN  IF lt.err # "none"
        THEN [Rethrown(lt) EXCEPT !.readClock = TRUE]
        ELSE Returned(saveTasks(lt.disk, Append(lt.tasks, task), now).disk,
                      <<task>>, TRUE, TRUE, TRUE)

getTask(disk, taskId, now) == storageFindTask(disk, taskId, now)

\* A call that returns a value other than Task | null.
ReturnedValue(disk, value, wrote, readClock) ==
    [value |-> value] @@ Returned(disk, <<>>, FALSE, wrote, readClock)

\* tasks.filter(t => t.column === column)
FilterColumn(tasks, column) ==
    SelectSeq(tasks, LAMBDA t : Get(t, "column") = column)

\* Mutant of getTasks: the column filter is ignored.
getTasksUnfiltered(disk, column, now) ==
    LET lt == loadTasks(disk, now)
    IN  ReturnedValue(lt.disk, lt.tasks, lt.wrote, lt.readClock)

\* getTasks(column?): column is UNDEF when the caller gives none.
getTasks(disk, column, now) ==
    LET lt == loadTasks(disk, now)
    IN  IF lt.err # "none" THEN Rethrown(lt)
        ELSE
        ReturnedValue(lt.disk,
                      IF Falsy(column) THEN lt.tasks ELSE FilterColumn(lt.tasks, column),
                      lt.wrote, lt.readClock)

\* getTasksByColumn: grouped[task.column].push(task) throws a TypeError when
\* grouped has no list for the column of a task.
getTasksByColumn(disk, now) ==
    LET lt == loadTasks(disk, now)
    IN  IF lt.err # "none" THEN Rethrown(lt)
        ELSE IF \E i \in 1..Len(lt.tasks) : Get(lt.tasks[i], "column") \notin ColumnType
        THEN [Thrown(lt.disk, "TypeError") EXCEPT !.wrote = lt.wrote,
                                                  !.readClock = lt.readClock]
        ELSE ReturnedValue(lt.disk,
                           [c \in ColumnType |-> FilterColumn(lt.tasks, c)],
                           lt.wrote, lt.readClock)

\* undefined++ : the count of a column that stats has no key for.
NaN == -1

\* getStats: stats[task.column]++ adds the key of a column outside the four,
\* with the value NaN.
getStats(disk, now) ==
    LET lt == loadTasks(disk, now)
        seen == {Get(lt.tasks[i], "column") : i \in 1..Len(lt.tasks)}
    IN  IF lt.err # "none" THEN Rethrown(lt)
        ELSE
        ReturnedValue(lt.disk,
                      [c \in ColumnType \cup seen |->
                          IF c \in ColumnType THEN Len(FilterColumn(lt.tasks, c))
                          ELSE NaN],
                      lt.wrote, lt.readClock)

updateTask(disk, taskId, updates, now) == storageUpdateTask(disk, taskId, updates, now)

\* Mutant of moveTask: the column is not validated.
moveTaskUnvalidated(disk, taskId, toColumn, now) ==
    storageUpdateTask(disk, taskId, [column |-> toColumn], now)

\* The place of a column in COLUMNS.
ColumnPlace(column) == CHOOSE i \in 1..Len(COLUMNS) : COLUMNS[i] = column

\* Mutant of moveTask: a workflow that only lets a task move forward.
moveTaskForwardOnly(disk, taskId, toColumn, now) ==
    LET tasks == loadTasks(disk, now).tasks
        index == FindIndex(tasks, taskId)
    IN  IF toColumn \notin ColumnType
        THEN Thrown(disk, "Invalid column")
        ELSE IF /\ index # 0
                /\ Get(tasks[index], "column") \in ColumnType
                /\ ColumnPlace(toColumn) < ColumnPlace(tasks[index].column)
        THEN Thrown(disk, "Invalid transition")
        ELSE storageUpdateTask(disk, taskId, [column |-> toColumn], now)

moveTask(disk, taskId, toColumn, now) ==
    IF toColumn \notin ColumnType
    THEN Thrown(disk, "Invalid column")
    ELSE storageUpdateTask(disk, taskId, [column |-> toColumn], now)

\* Mutant of moveToReview: the wrapper moves to the wrong column.
moveToReviewAsDone(disk, taskId, now) == moveTask(disk, taskId, "done", now)

moveToReview(disk, taskId, now) == moveTask(disk, taskId, "review", now)

completeTask(disk, taskId, now) == moveTask(disk, taskId, "done", now)

deleteTask(disk, taskId, now) == storageDeleteTask(disk, taskId, now)

----------------------------------------------------------------------------
\* HTTP adapter (src/web-server.ts, WebServer.handleApi) with a project
\* selected.  An adapter result is an engine result with the response status.

Respond(r, status) == [r EXCEPT !.status = status]

WithStatus(r) == r @@ [status |-> 0, value |-> <<>>]

\* POST /api/tasks
httpPostTasks(disk, body, now, count) ==
    IF Falsy(Get(body, "title"))
    THEN Respond(WithStatus(Thrown(disk, "Title required")), 400)
    ELSE LET r == WithStatus(createTask(disk, body, now, count))
         IN  IF r.err # "none" THEN Respond(r, 500) ELSE Respond(r, 201)

\* PUT /api/tasks/:id
httpPutTask(disk, taskId, body, now) ==
    LET r == WithStatus(updateTask(disk, taskId, body, now))
    IN  IF r.err # "none" THEN Respond(r, 500)
        ELSE IF r.ret = <<>> THEN Respond(r, 404)
        ELSE Respond(r, 200)

\* POST /api/tasks/:id/move.  handleRequest answers an error thrown by the
\* engine with 500.
httpPostMove(disk, taskId, body, now) ==
    IF Falsy(Get(body, "column"))
    THEN Respond(WithStatus(Thrown(disk, "Column required")), 400)
    ELSE LET r == WithStatus(moveTask(disk, taskId, Get(body, "column"), now))
         IN  IF r.err # "none" THEN Respond(r, 500)
             ELSE IF r.ret = <<>> THEN Respond(r, 404)
             ELSE Respond(r, 200)

----------------------------------------------------------------------------
\* MCP adapter (src/mcp-server.ts, createMcpServer).  The SDK validates the
\* arguments against the tool's zod shape before it calls the handler.

\* z.string(): a string, the empty one included; undefined is refused.
zString(v) == v # UNDEF

\* z.enum(values).optional()
zOptionalEnum(v, values) == v = UNDEF \/ v \in values

\* create_task
mcpCreateTask(disk, args, now, count) ==
    IF ~ /\ zString(Get(args, "title"))
         /\ zOptionalEnum(Get(args, "column"), ColumnType)
         /\ zOptionalEnum(Get(args, "priority"), Priority)
    THEN WithStatus(Thrown(disk, "Invalid arguments"))
    ELSE WithStatus(createTask(disk,
                               [title |-> Get(args, "title"),
                                description |-> Get(args, "description"),
                                column |-> Get(args, "column"),
                                priority |-> Get(args, "priority")],
                               now, count))

\* What a tool that takes a task id returns for the result r of the
\* engine: the error content with the id in its text and isError when the
\* engine returned null or false, else the content with the given text, in
\* which the task is written with JSON.stringify or the id is named.
McpToolResult(r, taskId, found, text) ==
    IF r.err # "none" THEN r
    ELSE IF ~found
    THEN [r EXCEPT !.value = [isError |-> TRUE, id |-> taskId,
                              text |-> "Error: Task with ID ${id} not found"]]
    ELSE IF r.ret = <<>>
    THEN [r EXCEPT !.value = [isError |-> FALSE, id |-> taskId, text |-> text]]
    ELSE [r EXCEPT !.value = [isError |-> FALSE, text |-> text,
                              task |-> JsonObject(r.ret[1])]]

\* update_task
mcpUpdateTask(disk, taskId, args, now) ==
    IF ~ zOptionalEnum(Get(args, "priority"), Priority)
    THEN WithStatus(Thrown(disk, "Invalid arguments"))
    ELSE The({ McpToolResult(r, taskId, r.ret # <<>>, "Updated task: ${task}")
               : r \in {WithStatus(updateTask(disk, taskId,
                               [title |-> Get(args, "title"),
                                description |-> Get(args, "description"),
                                priority |-> Get(args, "priority")],
                               now))} })

\* z.enum(values)
zEnum(v, values) == v \in values

\* move_task
mcpMoveTask(disk, taskId, column, now) ==
    IF ~ zEnum(column, ColumnType)
    THEN WithStatus(Thrown(disk, "Invalid arguments"))
    ELSE The({ McpToolResult(r, taskId, r.ret # <<>>,
                             "Moved task to ${column}: ${task}")
               : r \in {WithStatus(moveTask(disk, taskId, column, now))} })

\* move_to_review
mcpMoveToReview(disk, taskId, now) ==
    The({ McpToolResult(r, taskId, r.ret # <<>>, "Task moved to review: ${task}")
          : r \in {WithStatus(moveToReview(disk, taskId, now))} })

\* complete_task
mcpCompleteTask(disk, taskId, now) ==
    The({ McpToolResult(r, taskId, r.ret # <<>>, "Task completed: ${task}")
          : r \in {WithStatus(completeTask(disk, taskId, now))} })

\* Mutant of mcpDeleteTask: the boolean deleteTask returns is not looked at.
mcpDeleteTaskUnchecked(disk, taskId, now) ==
    The({ McpToolResult(r, taskId, TRUE, "Task ${id} deleted successfully")
          : r \in {WithStatus(deleteTask(disk, taskId, now))} })

\* delete_task
mcpDeleteTask(disk, taskId, now) ==
    The({ McpToolResult(r, taskId, r.bool, "Task ${id} deleted successfully")
          : r \in {WithStatus(deleteTask(disk, taskId, now))} })

----------------------------------------------------------------------------
\* What callers pass

\* CreateTaskInput values a TypeScript caller of the engine passes.
EngineCreateInputs ==
    { [title |-> "A"],
      [title |-> "A", description |-> "D", column |-> "todo", priority |-> "high"],
      [title |-> ""] }

\* JSON bodies of POST /api/tasks.
HttpCreateBodies ==
    { EmptyObject,
      [title |-> ""],
      [title |-> "A", column |-> "", priority |-> ""],
      [title |-> "A", column |-> "archive", priority |-> "urgent"] }

\* Arguments of the create_task tool.
McpCreateArgs ==
    { EmptyObject,
      [title |-> ""],
      [title |-> "A", priority |-> "low"],
      [title |-> "A", column |-> "archive"] }

\* UpdateTaskInput values a TypeScript caller of the engine passes.
EngineUpdateInputs ==
    { [title |-> "B"],
      [description |-> "E", priority |-> "low"] }

\* JSON bodies of PUT /api/tasks/:id.
HttpUpdateBodies ==
    { [title |-> "B"],
      [id |-> 1, column |-> "done", createdAt |-> 9, updatedAt |-> 0] }

\* Arguments of the update_task tool, the id apart.
McpUpdateArgs ==
    { [title |-> "B"],
      [priority |-> "high"],
      [priority |-> "urgent"] }

\* JSON bodies of POST /api/tasks/:id/move.
HttpMoveBodies ==
    { EmptyObject,
      [column |-> "archive"],
      [column |-> "review"] }

\* Columns passed to moveTask.
MoveColumns == ColumnType \cup {"archive"}

\* The disk of the project.
Disk == [config |-> configFile, tasks |-> taskFiles, global |-> globalFile]

\* The stored task collection (the empty one when there is no task file yet).
StoredOf(disk) ==
    LET f == disk.tasks[Spread(DEFAULT_CONFIG,
                               IF Exists(disk.config) THEN Content(disk.config)
                               ELSE EmptyObject).tasksFile]
    IN  IF Exists(f) THEN Content(f) ELSE <<>>

Stored == StoredOf(Disk)

\* An id no task has.
UnknownId == 0

\* The ids a caller passes: those of the stored tasks, those of tasks created
\* earlier (deleted since, maybe) and one of no task.
CallerIds == {Get(Stored[i], "id") : i \in 1..Len(Stored)} \cup issued \cup {UnknownId}

\* The column filters passed to getTasks; UNDEF is no filter.
FilterColumns == ColumnType \cup {"archive", UNDEF}

----------------------------------------------------------------------------
\* Initial states: a project directory the engine is bound to (new
\* KanbanBoard(projectPath)).  The directory is either fresh or holds the
\* board two earlier createTask calls left.

FreshDisk ==
    [config |-> Absent, tasks |-> [n \in TaskFileNames |-> Absent],
     global |-> Absent]

SeededDisk ==
    createTask(createTask(FreshDisk, [title |-> "A"], 0, 0).disk,
               [title |-> "A", description |-> "D", column |-> "todo",
                priority |-> "high"], 0, 1).disk

\* The processes that serve one project: the web server (web-server.ts) and
\* the MCP server (mcp-server.ts).
Procs == {"web", "mcp"}

\* A process that is in no call.
IdleProc ==
    [pc |-> "idle", op |-> "none", id |-> UnknownId, now |-> 0, task |-> <<>>,
     loaded |-> <<>>, buf |-> <<>>, creating |-> FALSE, fd |-> "none",
     clean |-> TRUE, err |-> "none", crashedAt |-> "none", overtakenBy |-> {}]

\* JavaScript's null.
NULL == "null"

\* No web server and no page: the engine is called directly.
NoWeb ==
    /\ dirs = <<>>
    /\ server = [projectPath |-> NULL, board |-> NULL]
    /\ client = [currentProject |-> NULL, tasks |-> <<>>, lastTasksHash |-> <<>>,
                 modal |-> FALSE, fetched |-> <<>>]

NoCall(disk, ids) ==
    [op |-> "init", via |-> "none", id |-> UnknownId, input |-> EmptyObject,
     column |-> "", now |-> 0, ret |-> <<>>, bool |-> FALSE, err |-> "none",
     status |-> 0, value |-> <<>>, wrote |-> FALSE, pre |-> disk,
     preIssued |-> ids]

Init ==
    /\ clock = 0
    /\ calls = 0
    /\ \/ /\ configFile = FreshDisk.config
          /\ taskFiles = FreshDisk.tasks
          /\ uuidCount = 0
          /\ issued = {}
       \/ /\ configFile = SeededDisk.config
          /\ taskFiles = SeededDisk.tasks
          /\ uuidCount = 2
          /\ issued = {1, 2}
    /\ last = NoCall([config |-> configFile, tasks |-> taskFiles,
                      global |-> Absent], issued)
    /\ globalFile = Absent
    /\ tempFile = Absent
    /\ partial = {}
    /\ procs = [p \in Procs |-> IdleProc]
    /\ NoWeb

----------------------------------------------------------------------------
\* One call.  now is the clock reading of the call: the clock is
\* non-decreasing, and a call that does not read it leaves it alone.

Times == {clock, clock + 1}

Call(op, via, id, input, column, now, r, created) ==
    /\ calls < MaxCalls
    /\ r.readClock \/ now = clock
    /\ calls' = calls + 1
    /\ clock' = now
    /\ configFile' = r.disk.config
    /\ taskFiles' = r.disk.tasks
    /\ uuidCount' = IF created THEN uuidCount + 1 ELSE uuidCount
    /\ issued' = IF created /\ r.ret # <<>> THEN issued \cup {r.ret[1].id} ELSE issued
    /\ last' = [op |-> op, via |-> via, id |-> id, input |-> input,
                column |-> column, now |-> now, ret |-> r.ret, bool |-> r.bool,
                err |-> r.err, status |-> r.status, value |-> r.value,
                wrote |-> r.wrote,
                pre |-> Disk, preIssued |-> issued]
    /\ globalFile' = r.disk.global
    /\ UNCHANGED <<tempFile, partial, procs, dirs, server, client>>

CreateTask ==
    \E input \in EngineCreateInputs, now \in Times :
        Call("createTask", "engine", UnknownId, input, "", now,
             WithStatus(createTask(Disk, input, now, uuidCount)), TRUE)

HttpPostTasks ==
    \E body \in HttpCreateBodies, now \in Times :
        LET r == httpPostTasks(Disk, body, now, uuidCount)
        IN  Call("createTask", "http", UnknownId, body, "", now, r, r.err = "none")

McpCreateTask ==
    \E args \in McpCreateArgs, now \in Times :
        LET r == mcpCreateTask(Disk, args, now, uuidCount)
        IN  Call("createTask", "mcp", UnknownId, args, "", now, r, r.err = "none")

GetTask ==
    \E id \in CallerIds, now \in Times :
        Call("getTask", "engine", id, EmptyObject, "", now,
             WithStatus(getTask(Disk, id, now)), FALSE)

GetTasks ==
    \E column \in FilterColumns, now \in Times :
        Call("getTasks", "engine", UnknownId, EmptyObject, column, now,
             WithStatus(getTasks(Disk, column, now)), FALSE)

GetTasksByColumn ==
    \E now \in Times :
        Call("getTasksByColumn", "engine", UnknownId, EmptyObject, "", now,
             WithStatus(getTasksByColumn(Disk, now)), FALSE)

GetStats ==
    \E now \in Times :
        Call("getStats", "engine", UnknownId, EmptyObject, "", now,
             WithStatus(getStats(Disk, now)), FALSE)

UpdateTask ==
    \E id \in CallerIds, updates \in EngineUpdateInputs, now \in Times :
        Call("updateTask", "engine", id, updates, "", now,
             WithStatus(updateTask(Disk, id, updates, now)), FALSE)

HttpPutTask ==
    \E id \in CallerIds, body \in HttpUpdateBodies, now \in Times :
        Call("updateTask", "http", id, body, "", now,
             httpPutTask(Disk, id, body, now), FALSE)

McpUpdateTask ==
    \E id \in CallerIds, args \in McpUpdateArgs, now \in Times :
        Call("updateTask", "mcp", id, args, "", now,
             mcpUpdateTask(Disk, id, args, now), FALSE)

MoveTask ==
    \E id \in CallerIds, toColumn \in MoveColumns, now \in Times :
        Call("moveTask", "engine", id, EmptyObject, toColumn, now,
             WithStatus(moveTask(Disk, id, toColumn, now)), FALSE)

HttpPostMove ==
    \E id \in CallerIds, body \in HttpMoveBodies, now \in Times :
        Call("moveTask", "http", id, body, Get(body, "column"), now,
             httpPostMove(Disk, id, body, now), FALSE)

MoveToReview ==
    \E id \in CallerIds, now \in Times :
        Call("moveToReview", "engine", id, EmptyObject, "", now,
             WithStatus(moveToReview(Disk, id, now)), FALSE)

CompleteTask ==
    \E id \in CallerIds, now \in Times :
        Call("completeTask", "engine", id, EmptyObject, "", now,
             WithStatus(completeTask(Disk, id, now)), FALSE)

DeleteTask ==
    \E id \in CallerIds, now \in Times :
        Call("deleteTask", "engine", id, EmptyObject, "", now,
             WithStatus(deleteTask(Disk, id, now)), FALSE)

Next ==
    \/ CreateTask
    \/ HttpPostTasks
    \/ McpCreateTask
    \/ GetTask
    \/ GetTasks
    \/ GetTasksByColumn
    \/ GetStats
    \/ UpdateTask
    \/ HttpPutTask
    \/ McpUpdateTask
    \/ MoveTask
    \/ HttpPostMove
    \/ MoveToReview
    \/ CompleteTask
    \/ DeleteTask

Spec == Init /\ [][Next]_vars

----------------------------------------------------------------------------
\* The task store called directly, as the tests of the store do
\* (src/test/board.test.ts): saveTasks and loadTasks on collections made in
\* memory.

\* Tasks as a caller builds them in memory; an optional property can be
\* there with the value undefined.
MemoryTasks ==
    { [id |-> 1, title |-> "A", description |-> UNDEF, column |-> "backlog",
       priority |-> "medium", createdAt |-> 0, updatedAt |-> 0],
      [id |-> 2, title |-> "", description |-> "D", column |-> "todo",
       priority |-> "high", createdAt |-> 0, updatedAt |-> 1],
      [id |-> 3, title |-> "B", column |-> "done",
       priority |-> UNDEF, createdAt |-> 1, updatedAt |-> 1] }

\* The collections of memory tasks in which no id is there twice.
Collections ==
    UNION { {c \in [1..n -> MemoryTasks] : \A i, j \in 1..n : i # j => c[i].id # c[j].id}
            : n \in 0..Cardinality(MemoryTasks) }

SaveTasks ==
    \E tasks \in Collections \cup (IF last.op = "loadTasks" THEN {last.value} ELSE {}),
       now \in Times :
        LET st == saveTasks(Disk, tasks, now)
        IN  Call("saveTasks", "store", UnknownId, EmptyObject, "", now,
                 WithStatus(IF st.err # "none" THEN Rethrown(st)
                            ELSE ReturnedValue(st.disk, tasks, st.wrote, st.readClock)),
                 FALSE)

LoadTasks ==
    \E now \in Times :
        LET lt == loadTasks(Disk, now)
        IN  Call("loadTasks", "store", UnknownId, EmptyObject, "", now,
                 WithStatus(IF lt.err # "none" THEN Rethrown(lt)
                            ELSE ReturnedValue(lt.disk, lt.tasks, lt.wrote, lt.readClock)),
                 FALSE)

NextStore ==
    \/ SaveTasks
    \/ LoadTasks

SpecStore == Init /\ [][NextStore]_vars

----------------------------------------------------------------------------
\* The configuration store called directly and through /api/config, on
\* config files the program wrote, on config files of an older layout that
\* lack fields, and on config files whose YAML document is no mapping.

\* The result of a config operation as the result of a call.
ConfigResult(c) ==
    IF c.err # "none"
    THEN [Thrown(c.disk, c.err) EXCEPT !.readClock = c.readClock]
    ELSE ReturnedValue(c.disk, c.config, FALSE, c.readClock)

\* PUT /api/config: the body is spread over the loaded config, saved and
\* sent.
httpPutConfig(disk, body, now) ==
    The({ IF lc.err # "none"
          THEN Respond(WithStatus(ConfigResult(lc)), 500)
          ELSE LET updated == Spread(lc.config, body)
               IN  Respond(WithStatus(ReturnedValue(saveConfig(lc.disk, updated),
                                                    JsonObject(updated), FALSE,
                                                    lc.readClock)), 200)
          : lc \in {loadConfig(disk, now)} })

\* GET /api/config
httpGetConfig(disk, now) ==
    The({ IF lc.err # "none"
          THEN Respond(WithStatus(ConfigResult(lc)), 500)
          ELSE Respond(WithStatus(ReturnedValue(lc.disk, JsonObject(lc.config),
                                                FALSE, lc.readClock)), 200)
          : lc \in {loadConfig(disk, now)} })

\* BoardConfig values passed to saveConfig.
BoardConfigs ==
    { [boardName |-> "Test Board", tasksFile |-> "custom-tasks.json", createdAt |-> 5],
      [boardName |-> "", tasksFile |-> "tasks.json", createdAt |-> 0] }

\* Partial<Omit<BoardConfig, 'createdAt'>> values passed to updateConfig.
ConfigUpdates ==
    { EmptyObject,
      [boardName |-> "B"],
      [tasksFile |-> "custom-tasks.json"],
      [boardName |-> "B", tasksFile |-> "custom-tasks.json"] }

\* JSON bodies of PUT /api/config.
HttpConfigBodies ==
    { [boardName |-> "C"],
      [createdAt |-> 9] }

\* Config files found in a project directory: none, the one the first load
\* wrote, mappings that lack fields, and documents that are no mapping (an
\* empty document, the scalar x, the list [a], a text that is not YAML).
ConfigFiles ==
    { Absent,
      File([boardName |-> "Kanban Board", tasksFile |-> "tasks.json", createdAt |-> 0]),
      File([boardName |-> "Old Board"]),
      File([tasksFile |-> "old.json", createdAt |-> 0]),
      File(EmptyObject),
      Document(EmptyObject, "empty"),
      Document([k \in {"0"} |-> "x"], "scalar"),
      Document([k \in {"0"} |-> "a"], "list"),
      Document(EmptyObject, "text") }

InitConfig ==
    /\ clock = 0
    /\ calls = 0
    /\ uuidCount = 0
    /\ issued = {}
    /\ configFile \in ConfigFiles
    /\ taskFiles = FreshDisk.tasks
    /\ last = NoCall([FreshDisk EXCEPT !.config = configFile], {})
    /\ globalFile = Absent
    /\ tempFile = Absent
    /\ partial = {}
    /\ procs = [p \in Procs |-> IdleProc]
    /\ NoWeb

LoadConfig ==
    \E now \in Times :
        Call("loadConfig", "config", UnknownId, EmptyObject, "", now,
             WithStatus(ConfigResult(loadConfig(Disk, now))), FALSE)

SaveConfig ==
    \E config \in BoardConfigs :
        Call("saveConfig", "config", UnknownId, config, "", clock,
             WithStatus(Returned(saveConfig(Disk, config), <<>>, FALSE, FALSE, FALSE)),
             FALSE)

UpdateConfig ==
    \E updates \in ConfigUpdates, now \in Times :
        Call("updateConfig", "config", UnknownId, updates, "", now,
             WithStatus(ConfigResult(updateConfig(Disk, updates, now))), FALSE)

HttpPutConfig ==
    \E body \in HttpConfigBodies, now \in Times :
        Call("putConfig", "http", UnknownId, body, "", now,
             httpPutConfig(Disk, body, now), FALSE)

HttpGetConfig ==
    \E now \in Times :
        Call("getConfig", "http", UnknownId, EmptyObject, "", now,
             httpGetConfig(Disk, now), FALSE)

NextConfig ==
    \/ LoadConfig
    \/ SaveConfig
    \/ UpdateConfig
    \/ HttpPutConfig
    \/ HttpGetConfig

SpecConfig == InitConfig /\ [][NextConfig]_vars

----------------------------------------------------------------------------
\* The tools of the MCP server that take a task id, called by an MCP client
\* on the board create_task calls have made.

McpMoveTask ==
    \E id \in CallerIds, column \in MoveColumns, now \in Times :
        Call("moveTask", "mcp", id, [column |-> column], column, now,
             mcpMoveTask(Disk, id, column, now), FALSE)

McpMoveToReview ==
    \E id \in CallerIds, now \in Times :
        Call("moveToReview", "mcp", id, EmptyObject, "", now,
             mcpMoveToReview(Disk, id, now), FALSE)

McpCompleteTask ==
    \E id \in CallerIds, now \in Times :
        Call("completeTask", "mcp", id, EmptyObject, "", now,
             mcpCompleteTask(Disk, id, now), FALSE)

McpDeleteTask ==
    \E id \in CallerIds, now \in Times :
        Call("deleteTask", "mcp", id, EmptyObject, "", now,
             mcpDeleteTask(Disk, id, now), FALSE)

NextMcp ==
    \/ McpCreateTask
    \/ McpUpdateTask
    \/ McpMoveTask
    \/ McpMoveToReview
    \/ McpCompleteTask
    \/ McpDeleteTask

SpecMcp == Init /\ [][NextMcp]_vars

----------------------------------------------------------------------------
\* The page in the browser (public/app.js) on a board that engine calls of
\* another client change.  client.tasks is the board the page shows (the
\* tasks renderBoard was given), client.fetched the tasks the last poll that
\* ran, or init, was sent.  lastTasksHash is <<>> for the empty string and
\* <<h>> for the hash h.

\* getState: loadTasks, then loadConfig.
getState(disk, now) ==
    The({ IF lt.err # "none" THEN Rethrown(lt)
          ELSE The({ IF lc.err # "none"
                     THEN [Thrown(lc.disk, lc.err) EXCEPT !.readClock = lt.readClock]
                     ELSE ReturnedValue(lc.disk,
                                        [tasks |-> lt.tasks, config |-> lc.config],
                                        lt.wrote, lt.readClock \/ lc.readClock)
                     : lc \in {loadConfig(lt.disk, now)} })
          : lt \in {loadTasks(disk, now)} })

\* hashTasks: JSON.stringify of the (id, column, updatedAt) of every task.
hashTasks(tasksArray) ==
    [i \in 1..Len(tasksArray) |->
        JsonObject([id        |-> Get(tasksArray[i], "id"),
                    column    |-> Get(tasksArray[i], "column"),
                    updatedAt |-> Get(tasksArray[i], "updatedAt")])]

\* The page after init() on a selected project: the board is rendered and
\* its hash remembered.
PageOf(projectPath, tasksArray) ==
    [currentProject |-> projectPath, tasks |-> tasksArray,
     lastTasksHash |-> <<hashTasks(tasksArray)>>, modal |-> FALSE,
     fetched |-> tasksArray]

InitPoll ==
    /\ clock = 0
    /\ calls = 0
    /\ \E disk \in {FreshDisk, SeededDisk} :
           LET st == getState(disk, 0)
           IN  /\ configFile = st.disk.config
               /\ taskFiles = st.disk.tasks
               /\ uuidCount = Len(st.value.tasks)
               /\ issued = 1..Len(st.value.tasks)
               /\ client = PageOf("/p", JsonArray(st.value.tasks))
    /\ last = NoCall([config |-> configFile, tasks |-> taskFiles,
                      global |-> Absent], issued)
    /\ globalFile = Absent
    /\ tempFile = Absent
    /\ partial = {}
    /\ procs = [p \in Procs |-> IdleProc]
    /\ dirs = <<>>
    /\ server = [projectPath |-> "/p", board |-> "/p"]

\* pollForChanges: nothing without a project or with a modal open; else the
\* board is fetched (GET /api/board, sendJson of getState), rendered when a
\* hash is remembered and the new one differs, and the new hash remembered.
\* An error of the fetch is logged.
PollForChanges ==
    \E now \in Times :
        LET st == getState(Disk, now)
            board == JsonArray(st.value.tasks)
            newHash == <<hashTasks(board)>>
        IN  /\ st.readClock \/ now = clock
            /\ IF client.currentProject = NULL \/ client.modal
               THEN UNCHANGED <<configFile, taskFiles, clock, client>>
               ELSE IF st.err # "none"
               THEN UNCHANGED <<configFile, taskFiles, clock, client>>
               ELSE /\ configFile' = st.disk.config
                    /\ taskFiles' = st.disk.tasks
                    /\ clock' = now
                    /\ client' = [client EXCEPT
                          !.tasks = IF client.lastTasksHash # <<>>
                                       /\ newHash # client.lastTasksHash
                                    THEN board ELSE @,
                          !.lastTasksHash = newHash,
                          !.fetched = board]
            /\ UNCHANGED <<uuidCount, issued, calls, last, globalFile, tempFile,
                           partial, procs, dirs, server>>

\* openAddTaskModal, openEditTaskModal
OpenTaskModal ==
    /\ client' = [client EXCEPT !.modal = TRUE]
    /\ UNCHANGED <<configFile, taskFiles, clock, uuidCount, issued, calls, last,
                   globalFile, tempFile, partial, procs, dirs, server>>

\* closeTaskModal
CloseTaskModal ==
    /\ client' = [client EXCEPT !.modal = FALSE]
    /\ UNCHANGED <<configFile, taskFiles, clock, uuidCount, issued, calls, last,
                   globalFile, tempFile, partial, procs, dirs, server>>

NextPoll ==
    \/ CreateTask
    \/ UpdateTask
    \/ MoveTask
    \/ DeleteTask
    \/ PollForChanges
    \/ OpenTaskModal
    \/ CloseTaskModal

SpecPoll == InitPoll /\ [][NextPoll]_vars

----------------------------------------------------------------------------
\* The registry of projects in the user's home directory
\* (src/config/global-config.ts), starting with no registry file.

\* The number of recent projects kept.
MaxRecentProjects == 10

\* Project paths, one more than the registry keeps.
PathOrder == <<"/a", "/b", "/c", "/d", "/e", "/f", "/g", "/h", "/i", "/j", "/k">>

Paths == {PathOrder[i] : i \in 1..Len(PathOrder)}

\* yaml.parse(yaml.stringify(config)) of a GlobalConfig: a property whose
\* value is undefined is not written; the list is written as it is.
YamlGlobalConfig(config) ==
    LET keep == {k \in DOMAIN config : k = "recentProjects" \/ config[k] # UNDEF}
    IN  [k \in keep |-> config[k]]

\* loadGlobalConfig: {} when there is no file, when the document is empty
\* (yaml.parse(content) || {}) and when yaml.parse throws.
loadGlobalConfig(disk) ==
    IF ~Exists(disk.global) THEN EmptyObject
    ELSE IF ~Structured(disk.global) THEN
        IF disk.global[2] \in {"empty", "text"} THEN EmptyObject
        ELSE Content(disk.global)
    ELSE Content(disk.global)

\* saveGlobalConfig: writeFileSync of the YAML text.
saveGlobalConfig(disk, config) ==
    [disk EXCEPT !.global = File(YamlGlobalConfig(config))]

\* config.recentProjects || []
RecentOf(config) ==
    IF "recentProjects" \in DOMAIN config THEN config.recentProjects ELSE <<>>

\* Array.prototype.indexOf(projectPath); 0 stands for -1.
IndexOf(list, projectPath) ==
    LET hits == {i \in 1..Len(list) : list[i] = projectPath}
    IN  IF hits = {} THEN 0 ELSE CHOOSE i \in hits : \A j \in hits : i <= j

\* Array.prototype.slice(0, n)
Slice(list, n) == SubSeq(list, 1, IF Len(list) < n THEN Len(list) ELSE n)

\* Mutant of setLastProjectPath: an earlier occurrence is not removed.
setLastProjectPathNoRemove(disk, projectPath) ==
    LET config         == loadGlobalConfig(disk)
        recentProjects == <<projectPath>> \o RecentOf(config)
    IN  saveGlobalConfig(disk,
            [lastProjectPath |-> projectPath,
             recentProjects  |-> Slice(recentProjects, MaxRecentProjects)] @@ config)

\* Mutant of setLastProjectPath: the path is pushed at the end and the last
\* ten entries are kept.
setLastProjectPathPush(disk, projectPath) ==
    LET config         == loadGlobalConfig(disk)
        recent         == RecentOf(config)
        index          == IndexOf(recent, projectPath)
        removed        == IF index > 0 THEN Splice(recent, index) ELSE recent
        recentProjects == removed \o <<projectPath>>
        from           == IF Len(recentProjects) > MaxRecentProjects
                          THEN Len(recentProjects) - MaxRecentProjects + 1 ELSE 1
    IN  saveGlobalConfig(disk,
            [lastProjectPath |-> projectPath,
             recentProjects  |-> SubSeq(recentProjects, from, Len(recentProjects))]
            @@ config)

\* setLastProjectPath: the first occurrence of the path is spliced out, the
\* path is put in front and the first ten entries are kept and saved.
setLastProjectPath(disk, projectPath) ==
    LET config         == loadGlobalConfig(disk)
        recent         == RecentOf(config)
        index          == IndexOf(recent, projectPath)
        removed        == IF index > 0 THEN Splice(recent, index) ELSE recent
        recentProjects == <<projectPath>> \o removed
    IN  saveGlobalConfig(disk,
            [lastProjectPath |-> projectPath,
             recentProjects  |-> Slice(recentProjects, MaxRecentProjects)] @@ config)

\* getLastProjectPath
getLastProjectPath(disk) == Get(loadGlobalConfig(disk), "lastProjectPath")

\* getRecentProjects
getRecentProjects(disk) == RecentOf(loadGlobalConfig(disk))

\* The disk after the first k paths of PathOrder were activated in order,
\* from no registry file.
RECURSIVE Activated(_)
Activated(k) ==
    IF k = 0 THEN FreshDisk
    ELSE setLastProjectPath(Activated(k - 1), PathOrder[k])

InitRegistry ==
    /\ clock = 0
    /\ calls = 0
    /\ uuidCount = 0
    /\ issued = {}
    /\ configFile = Absent
    /\ taskFiles = FreshDisk.tasks
    /\ globalFile \in {Activated(k).global : k \in 0..Len(PathOrder)}
    /\ last = NoCall([FreshDisk EXCEPT !.global = globalFile], {})
    /\ tempFile = Absent
    /\ partial = {}
    /\ procs = [p \in Procs |-> IdleProc]
    /\ NoWeb

SetLastProjectPath ==
    \E projectPath \in Paths :
        Call("setLastProjectPath", "config", UnknownId, [path |-> projectPath],
             "", clock,
             WithStatus(Returned(setLastProjectPath(Disk, projectPath),
                                 <<>>, FALSE, FALSE, FALSE)),
             FALSE)

GetLastProjectPath ==
    Call("getLastProjectPath", "config", UnknownId, EmptyObject, "", clock,
         WithStatus(ReturnedValue(Disk, getLastProjectPath(Disk), FALSE, FALSE)),
         FALSE)

GetRecentProjects ==
    Call("getRecentProjects", "config", UnknownId, EmptyObject, "", clock,
         WithStatus(ReturnedValue(Disk, getRecentProjects(Disk), FALSE, FALSE)),
         FALSE)

NextRegistry ==
    \/ SetLastProjectPath
    \/ GetLastProjectPath
    \/ GetRecentProjects

SpecRegistry == InitRegistry /\ [][NextRegistry]_vars

\* A registry file that was damaged outside the program (a text that is
\* not YAML), beside registries the program wrote.
DamagedRegistries ==
    {Document(EmptyObject, "text")} \cup {Activated(k).global : k \in 1..2}

InitDamaged ==
    /\ clock = 0
    /\ calls = 0
    /\ uuidCount = 0
    /\ issued = {}
    /\ configFile = Absent
    /\ taskFiles = FreshDisk.tasks
    /\ globalFile \in DamagedRegistries
    /\ last = NoCall([FreshDisk EXCEPT !.global = globalFile], {})
    /\ tempFile = Absent
    /\ partial = {}
    /\ procs = [p \in Procs |-> IdleProc]
    /\ NoWeb

SpecDamaged == InitDamaged /\ [][NextRegistry]_vars

----------------------------------------------------------------------------
\* The web server (src/web-server.ts) with its project selection, on two
\* project directories, and the two ways the command line (src/index.ts)
\* activates a project.  dirs holds, for each directory, whether it was
\* made, its config file and its task files; a web state w is the
\* directories, the registry file and the fields of the WebServer.

ProjectPaths == {"/p", "/q"}

\* The paths a caller names.
RequestPaths == {"/p", "/q", "/q/."}

\* path.resolve(projectPath)
Resolve(projectPath) == IF projectPath = "/q/." THEN "/q" ELSE projectPath

\* The names a config of these projects gives its task file.
WebTaskFiles == {"tasks.json", "../q/tasks.json"}

\* path.join(projectPath, name), as the directory and the name in it.
Join(projectPath, name) ==
    IF name = "../q/tasks.json" THEN <<"/q", "tasks.json">> ELSE <<projectPath, name>>

\* The disk an engine bound to projectPath works on.
View(d, global, projectPath) ==
    [config |-> d[projectPath].config,
     tasks  |-> [n \in WebTaskFiles |->
                    d[Join(projectPath, n)[1]].tasks[Join(projectPath, n)[2]]],
     global |-> global]

\* The directories after an engine bound to projectPath has turned the
\* disk before into the disk after.
Put(d, projectPath, before, after) ==
    [e \in DOMAIN d |->
        LET written(m) == {n \in WebTaskFiles :
                              /\ Join(projectPath, n) = <<e, m>>
                              /\ after.tasks[n] # before.tasks[n]}
        IN  [made   |-> \/ d[e].made
                        \/ \E m \in TaskFileNames : written(m) # {},
             config |-> IF e = projectPath THEN after.config ELSE d[e].config,
             tasks  |-> [m \in TaskFileNames |->
                            IF written(m) = {} THEN d[e].tasks[m]
                            ELSE after.tasks[CHOOSE n \in written(m) : TRUE]]]]

\* The web state after a call on the disk of projectPath left the disk after.
Landed(w, projectPath, after) ==
    [w EXCEPT !.dirs = Put(w.dirs, projectPath,
                           View(w.dirs, w.global, projectPath), after),
              !.global = after.global]

\* fs.mkdirSync(projectPath, { recursive: true }) when it is not there.
MkDir(w, projectPath) == [w EXCEPT !.dirs[projectPath].made = TRUE]

\* Mutant of setProject: the board instance is not replaced.
setProjectKeepsBoard(w, projectPath, now) ==
    The({ The({ IF lc.err # "none"
                THEN [w |-> w1, err |-> lc.err, readClock |-> lc.readClock]
                ELSE [w |-> Landed(w1, w1.server.projectPath,
                                   setLastProjectPath(lc.disk, w1.server.projectPath)),
                      err |-> "none", readClock |-> lc.readClock]
                : lc \in {loadConfig(View(w1.dirs, w1.global, w1.server.projectPath),
                                     now)} })
          : w1 \in {MkDir([w EXCEPT !.server.projectPath = Resolve(projectPath)],
                          Resolve(projectPath))} })

\* WebServer.setProject: projectPath is set, the directory made, the config
\* loaded (and written when there is none), the board instance replaced
\* and the path saved as last used.  A throw of loadConfig leaves the
\* fields set so far.
setProject(w, projectPath, now) ==
    The({ The({ IF lc.err # "none"
                THEN [w |-> w1, err |-> lc.err, readClock |-> lc.readClock]
                ELSE [w |-> [Landed(w1, w1.server.projectPath,
                                    setLastProjectPath(lc.disk, w1.server.projectPath))
                             EXCEPT !.server.board = w1.server.projectPath],
                      err |-> "none", readClock |-> lc.readClock]
                : lc \in {loadConfig(View(w1.dirs, w1.global, w1.server.projectPath),
                                     now)} })
          : w1 \in {MkDir([w EXCEPT !.server.projectPath = Resolve(projectPath)],
                          Resolve(projectPath))} })

\* startWebServer(port, lastProject) as runWebMode calls it: a new
\* WebServer, and setProject when the registry names a last project.
startWebServer(w, now) ==
    LET fresh == [w EXCEPT !.server = [projectPath |-> NULL, board |-> NULL]]
        lastProject == getLastProjectPath(View(w.dirs, w.global, "/p"))
    IN  IF Falsy(lastProject)
        THEN [w |-> fresh, err |-> "none", readClock |-> FALSE]
        ELSE setProject(fresh, lastProject, now)

\* initializeProject of the interactive mode: the directory is made, the
\* config loaded and the path saved as last used.
initializeProject(w, projectPath, now) ==
    The({ IF lc.err # "none"
          THEN [w |-> MkDir(w, projectPath), err |-> lc.err,
                readClock |-> lc.readClock]
          ELSE [w |-> Landed(MkDir(w, projectPath), projectPath,
                             setLastProjectPath(lc.disk, projectPath)),
                err |-> "none", readClock |-> lc.readClock]
          : lc \in {loadConfig(View(MkDir(w, projectPath).dirs, w.global,
                                    projectPath), now)} })

\* The project runMcpMode starts the MCP server on: VIBAN_PROJECT_PATH,
\* else the last project of the registry, else the working directory.
McpProjectPath(w, env, cwd) ==
    Resolve(OrElse(env, OrElse(getLastProjectPath(View(w.dirs, w.global, cwd)), cwd)))

\* runMcpMode: the directory is made and the config loaded.
runMcpMode(w, env, cwd, now) ==
    The({ The({ [w |-> IF lc.err # "none" THEN MkDir(w, projectPath)
                       ELSE Landed(MkDir(w, projectPath), projectPath, lc.disk),
                 err |-> lc.err, readClock |-> lc.readClock]
                : lc \in {loadConfig(View(MkDir(w, projectPath).dirs, w.global,
                                          projectPath), now)} })
          : projectPath \in {McpProjectPath(w, env, cwd)} })

\* A request: its route (method and path), the task id in the path, the
\* kind of text in its body and the value JSON.parse gives for that text.
Request(route, taskId, text, body) ==
    [route |-> route, id |-> taskId, text |-> text, body |-> body]

\* parseBody: {} for no body, a rejection for a text that is not JSON.
parseBody(req) ==
    IF req.text = "malformed" THEN [err |-> "Invalid JSON", body |-> EmptyObject]
    ELSE IF req.text = "" THEN [err |-> "none", body |-> EmptyObject]
    ELSE [err |-> "none", body |-> req.body]

\* The routes handleApi answers before it asks for an active project.
ProjectRoutes == {"GET /api/projects", "POST /api/project/select",
                  "GET /api/project/current"}

\* Mutant of NoActiveProject: a route that is not known is answered first.
NoActiveProjectOnKnownRoute(srv, route) ==
    /\ srv.board = NULL \/ srv.projectPath = NULL
    /\ route # "GET /api/unknown"

\* !this.board || !this.projectPath
NoActiveProject(srv, route) == srv.board = NULL \/ srv.projectPath = NULL

\* An answer: the web state left, the status, the JSON sent, the error
\* thrown or refused with, the task an engine call returned.
Answer(w, status, value, err, readClock) ==
    [w |-> w, status |-> status, value |-> value, err |-> err,
     readClock |-> readClock, ret |-> <<>>, created |-> FALSE]

\* sendError(res, message, status)
SendError(w, message, status, err, readClock) ==
    Answer(w, status, [error |-> message], err, readClock)

\* The answer to the result r of an adapter call on the disk of
\* projectPath: sendJson of the value or the task, sendError for a refusal
\* and for null, and the 500 of handleRequest for a throw.
Answered(w, projectPath, r, created) ==
    IF r.status = 500
    THEN SendError(Landed(w, projectPath, r.disk), "Internal server error", 500,
                   r.err, r.readClock)
    ELSE IF r.status = 400
    THEN SendError(w, r.err, 400, r.err, r.readClock)
    ELSE IF r.status = 404
    THEN SendError(Landed(w, projectPath, r.disk), "Task not found", 404,
                   "none", r.readClock)
    ELSE [Answer(Landed(w, projectPath, r.disk), r.status,
                 IF r.ret # <<>> THEN JsonObject(r.ret[1]) ELSE r.value,
                 "none", r.readClock)
          EXCEPT !.ret = r.ret, !.created = created /\ r.ret # <<>>]

\* GET /api/tasks
httpGetTasks(disk, now) ==
    The({ IF r.err # "none" THEN Respond(r, 500)
          ELSE Respond([r EXCEPT !.value = JsonArray(@)], 200)
          : r \in {WithStatus(getTasks(disk, UNDEF, now))} })

\* GET /api/board
httpGetBoard(disk, now) ==
    The({ IF r.err # "none" THEN Respond(r, 500)
          ELSE Respond([r EXCEPT !.value = [tasks |-> JsonArray(@.tasks),
                                            config |-> JsonObject(@.config)]], 200)
          : r \in {WithStatus(getState(disk, now))} })

\* DELETE /api/tasks/:id
httpDeleteTask(disk, taskId, now) ==
    The({ IF r.err # "none" THEN Respond(r, 500)
          ELSE IF ~r.bool THEN Respond(r, 404)
          ELSE Respond([r EXCEPT !.value = [success |-> TRUE]], 200)
          : r \in {WithStatus(deleteTask(disk, taskId, now))} })

\* The routes of handleApi that await parseBody(req).
BodyRoutes == {"POST /api/project/select", "POST /api/tasks", "PUT /api/tasks/:id",
               "POST /api/tasks/:id/move", "PUT /api/config"}

\* handleApi, with the catch of handleRequest around it.
handleApi(w, req, now, count) ==
    LET srv    == w.server
        parsed == parseBody(req)
        body   == parsed.body
        board  == View(w.dirs, w.global, srv.board)
        dir    == View(w.dirs, w.global, srv.projectPath)
        thrown == SendError(w, "Internal server error", 500, parsed.err, FALSE)
    IN  IF req.route = "GET /api/projects"
        THEN Answer(w, 200,
                    [current |-> srv.projectPath,
                     recent  |-> getRecentProjects(View(w.dirs, w.global, "/p"))],
                    "none", FALSE)
        ELSE IF req.route = "POST /api/project/select"
        THEN IF parsed.err # "none" THEN thrown
             ELSE IF Falsy(Get(body, "path"))
             THEN SendError(w, "Path required", 400, "Path required", FALSE)
             ELSE The({ IF sp.err # "none"
                        THEN SendError(sp.w, "Internal server error", 500, sp.err,
                                       sp.readClock)
                        ELSE Answer(sp.w, 200,
                                    [success |-> TRUE,
                                     project |-> sp.w.server.projectPath,
                                     config  |-> JsonObject(
                                        loadConfig(View(sp.w.dirs, sp.w.global,
                                                        sp.w.server.projectPath),
                                                   now).config)],
                                    "none", sp.readClock)
                        : sp \in {setProject(w, body.path, now)} })
        ELSE IF req.route = "GET /api/project/current"
        THEN IF srv.projectPath = NULL
             THEN Answer(w, 200, [project |-> NULL], "none", FALSE)
             ELSE The({ IF r.status = 500 THEN Answered(w, srv.projectPath, r, FALSE)
                        ELSE Answer(Landed(w, srv.projectPath, r.disk), 200,
                                    [project |-> srv.projectPath, config |-> r.value],
                                    "none", r.readClock)
                        : r \in {httpGetConfig(dir, now)} })
        ELSE IF NoActiveProject(srv, req.route)
        THEN SendError(w, "No project selected. POST to /api/project/select first.",
                       400, "No project selected", FALSE)
        ELSE IF req.route \in BodyRoutes /\ parsed.err # "none" THEN thrown
        ELSE IF req.route = "GET /api/board"
        THEN Answered(w, srv.board, httpGetBoard(board, now), FALSE)
        ELSE IF req.route = "GET /api/tasks"
        THEN Answered(w, srv.board, httpGetTasks(board, now), FALSE)
        ELSE IF req.route = "POST /api/tasks"
        THEN Answered(w, srv.board, httpPostTasks(board, body, now, count), TRUE)
        ELSE IF req.route = "PUT /api/tasks/:id"
        THEN Answered(w, srv.board, httpPutTask(board, req.id, body, now), FALSE)
        ELSE IF req.route = "DELETE /api/tasks/:id"
        THEN Answered(w, srv.board, httpDeleteTask(board, req.id, now), FALSE)
        ELSE IF req.route = "POST /api/tasks/:id/move"
        THEN Answered(w, srv.board, httpPostMove(board, req.id, body, now), FALSE)
        ELSE IF req.route = "GET /api/config"
        THEN Answered(w, srv.projectPath, httpGetConfig(dir, now), FALSE)
        ELSE IF req.route = "PUT /api/config"
        THEN Answered(w, srv.projectPath, httpPutConfig(dir, body, now), FALSE)
        ELSE SendError(w, "Not found", 404, "none", FALSE)

\* A directory with the files of a disk.
DirOf(disk) == [made |-> TRUE, config |-> disk.config, tasks |-> disk.tasks]

\* A directory that is not there.
NoDir == [made |-> FALSE, config |-> Absent, tasks |-> FreshDisk.tasks]

\* The board of another project: one task, with an id of its own.
OtherDisk == createTask(FreshDisk, [title |-> "Q"], 0, 2).disk

\* The directories before the web server starts: /p is not there or holds
\* the seeded board; /q is not there, holds a board of its own, or holds a
\* config file that is not YAML.
WebDirs ==
    { [e \in ProjectPaths |-> IF e = "/p" THEN dp ELSE dq]
      : dp \in {NoDir, DirOf(SeededDisk)},
        dq \in {NoDir, DirOf(OtherDisk),
                [NoDir EXCEPT !.made = TRUE, !.config = Document(EmptyObject, "text")]} }

\* The registry before the web server starts: none, or /p activated.
WebRegistries == {Absent, setLastProjectPath(FreshDisk, "/p").global}

\* The web state of this state.
Web == [dirs |-> dirs, global |-> globalFile, server |-> server]

InitWeb ==
    /\ clock = 0
    /\ calls = 0
    /\ uuidCount = 3
    /\ issued = {1, 2, 3}
    /\ configFile = Absent
    /\ taskFiles = FreshDisk.tasks
    /\ \E d \in WebDirs, g \in WebRegistries :
           LET w == startWebServer([dirs |-> d, global |-> g,
                                    server |-> [projectPath |-> NULL, board |-> NULL]],
                                   0).w
           IN  /\ dirs = w.dirs
               /\ globalFile = w.global
               /\ server = w.server
    /\ last = NoCall([dirs |-> dirs, global |-> globalFile, server |-> server],
                     issued)
    /\ tempFile = Absent
    /\ partial = {}
    /\ procs = [p \in Procs |-> IdleProc]
    /\ client = [currentProject |-> NULL, tasks |-> <<>>, lastTasksHash |-> <<>>,
                 modal |-> FALSE, fetched |-> <<>>]

\* One request or command, with its answer r.
Did(op, via, input, now, r) ==
    /\ calls < MaxCalls
    /\ r.readClock \/ now = clock
    /\ calls' = calls + 1
    /\ clock' = now
    /\ dirs' = r.w.dirs
    /\ globalFile' = r.w.global
    /\ server' = r.w.server
    /\ uuidCount' = IF r.created THEN uuidCount + 1 ELSE uuidCount
    /\ issued' = IF r.created THEN issued \cup {r.ret[1].id} ELSE issued
    /\ last' = [op |-> op, via |-> via, id |-> input.id, input |-> input,
                column |-> "", now |-> now, ret |-> r.ret, bool |-> FALSE,
                err |-> r.err, status |-> r.status, value |-> r.value,
                wrote |-> FALSE, pre |-> Web, preIssued |-> issued]
    /\ UNCHANGED <<configFile, taskFiles, tempFile, partial, procs, client>>

\* A request to the web server.
Ask(req, now) ==
    Did(req.route, "http", req, now, handleApi(Web, req, now, uuidCount))

\* The ids a request names.
WebIds == {UnknownId} \cup issued

\* The body of a request that has one: a JSON text, or a text that is not
\* JSON.
Bodies(values) ==
    {[text |-> "json", body |-> b] : b \in values}
        \cup {[text |-> "malformed", body |-> EmptyObject]}

WebGetProjects ==
    \E now \in Times :
        Ask(Request("GET /api/projects", UnknownId, "", EmptyObject), now)

WebSelectProject ==
    \E b \in Bodies({EmptyObject} \cup {[path |-> x] : x \in RequestPaths}), now \in Times :
        Ask(Request("POST /api/project/select", UnknownId, b.text, b.body), now)

WebGetCurrent ==
    \E now \in Times :
        Ask(Request("GET /api/project/current", UnknownId, "", EmptyObject), now)

WebGetBoard ==
    \E now \in Times :
        Ask(Request("GET /api/board", UnknownId, "", EmptyObject), now)

WebGetTasks ==
    \E now \in Times :
        Ask(Request("GET /api/tasks", UnknownId, "", EmptyObject), now)

WebPostTasks ==
    \E b \in Bodies({EmptyObject, [title |-> "A"]}), now \in Times :
        Ask(Request("POST /api/tasks", UnknownId, b.text, b.body), now)

WebPutTask ==
    \E id \in WebIds, b \in Bodies({[title |-> "B"]}), now \in Times :
        Ask(Request("PUT /api/tasks/:id", id, b.text, b.body), now)

WebDeleteTask ==
    \E id \in WebIds, now \in Times :
        Ask(Request("DELETE /api/tasks/:id", id, "", EmptyObject), now)

WebPostMove ==
    \E id \in WebIds, b \in Bodies(HttpMoveBodies), now \in Times :
        Ask(Request("POST /api/tasks/:id/move", id, b.text, b.body), now)

WebGetConfig ==
    \E now \in Times :
        Ask(Request("GET /api/config", UnknownId, "", EmptyObject), now)

WebPutConfig ==
    \E b \in Bodies({[boardName |-> "C"], [tasksFile |-> "../q/tasks.json"]}), now \in Times :
        Ask(Request("PUT /api/config", UnknownId, b.text, b.body), now)

WebUnknownRoute ==
    \E now \in Times :
        Ask(Request("GET /api/unknown", UnknownId, "", EmptyObject), now)

\* The answer of a command of the command line.
Ran(r) == Answer(r.w, 0, <<>>, r.err, r.readClock)

\* The web server is started again (runWebMode).
StartWebServer ==
    \E now \in Times :
        Did("startWebServer", "cli", Request("", UnknownId, "", EmptyObject), now,
            Ran(startWebServer(Web, now)))

\* The interactive mode initialises the project the user names.
InitializeProject ==
    \E projectPath \in ProjectPaths, now \in Times :
        Did("initializeProject", "cli",
            Request("", UnknownId, "", [path |-> projectPath]), now,
            Ran(initializeProject(Web, projectPath, now)))

\* The MCP server is started, with VIBAN_PROJECT_PATH set or not, in the
\* working directory /p.
RunMcpMode ==
    \E env \in {UNDEF, "/q"}, now \in Times :
        Did("runMcpMode", "cli",
            Request("", UnknownId, "", [path |-> McpProjectPath(Web, env, "/p")]),
            now, Ran(runMcpMode(Web, env, "/p", now)))

NextWeb ==
    \/ WebGetProjects
    \/ WebSelectProject
    \/ WebGetCurrent
    \/ WebGetBoard
    \/ WebGetTasks
    \/ WebPostTasks
    \/ WebPutTask
    \/ WebDeleteTask
    \/ WebPostMove
    \/ WebGetConfig
    \/ WebPutConfig
    \/ WebUnknownRoute
    \/ StartWebServer
    \/ InitializeProject
    \/ RunMcpMode

SpecWeb == InitWeb /\ [][NextWeb]_vars

----------------------------------------------------------------------------
\* A project whose task file was damaged outside the program: it holds a
\* JSON document that is not an array, or a text that is not JSON.

CorruptKinds == {"object", "text"}

CorruptDisks ==
    { [disk EXCEPT !.tasks["tasks.json"] = Document(<<>>, kind)]
      : disk \in {FreshDisk, SeededDisk}, kind \in CorruptKinds }

InitCorrupt ==
    /\ clock = 0
    /\ calls = 0
    /\ uuidCount = 0
    /\ issued = {}
    /\ \E disk \in CorruptDisks :
           /\ configFile = disk.config
           /\ taskFiles = disk.tasks
           /\ last = NoCall(disk, {})
    /\ globalFile = Absent
    /\ tempFile = Absent
    /\ partial = {}
    /\ procs = [p \in Procs |-> IdleProc]
    /\ NoWeb

NextCorrupt ==
    \/ Next
    \/ LoadTasks

SpecCorrupt == InitCorrupt /\ [][NextCorrupt]_vars

----------------------------------------------------------------------------
\* The task store step by step, for the processes that share a project.
\* A store call is loadTasks (existsSync, readFileSync, JSON.parse), the
\* change in memory, and saveTasks: writeFileSync of the temporary file
\* (open with truncation, then the write), then renameSync over the task
\* file.  A process can crash between any two steps.  The config file is
\* there and names tasks.json.

TasksPath == "tasks.json"

\* A disk after setProject: the config file is written, no task file yet.
ConfiguredDisk == loadConfig(FreshDisk, 0).disk

\* The task file holds a whole JSON document.
Whole == "final" \notin partial

\* The array a mutating call passes to saveTasks, from the array it loaded:
\* addTask pushes the task, deleteTask splices the slot of the id.
Mutated(proc, tasks) ==
    IF proc.op = "createTask"
    THEN Append(tasks, proc.task[1])
    ELSE Splice(tasks, FindIndex(tasks, proc.id))

\* The process after its loadTasks returned tasks: getTasks returns them,
\* deleteTask returns false for an id that is not there, the others go on
\* to saveTasks.
AfterLoad(proc, tasks) ==
    IF \/ proc.op = "getTasks"
       \/ proc.op = "deleteTask" /\ FindIndex(tasks, proc.id) = 0
    THEN [proc EXCEPT !.pc = "done", !.loaded = tasks, !.creating = FALSE]
    ELSE [proc EXCEPT !.pc = "open", !.loaded = tasks, !.creating = FALSE,
                      !.buf = Mutated(proc, tasks)]

\* A call begins in a process that is in none; a crashed process has been
\* started again.  What the other processes recorded about the earlier call
\* of this one is dropped.
Begin(p, op, id, task, now) ==
    /\ calls < MaxCalls
    /\ procs[p].pc \in {"idle", "done", "crashed"}
    /\ procs' = [q \in Procs |->
                    IF q = p
                    THEN [IdleProc EXCEPT !.pc = "load", !.op = op, !.id = id,
                                          !.task = task, !.now = now]
                    ELSE [procs[q] EXCEPT !.overtakenBy = @ \ {p}]]
    /\ calls' = calls + 1
    /\ UNCHANGED <<configFile, globalFile, dirs, server, client, taskFiles, last, tempFile, partial>>

\* createTask: the task is built, with its id and timestamps, before addTask
\* loads.
BeginCreateTask(p) ==
    \E now \in Times :
        LET task == createTask(FreshDisk, [title |-> "A"], now, uuidCount).ret
        IN  /\ Begin(p, "createTask", task[1].id, task, now)
            /\ clock' = now
            /\ uuidCount' = uuidCount + 1
            /\ issued' = issued \cup {task[1].id}

BeginDeleteTask(p) ==
    \E id \in CallerIds :
        /\ Begin(p, "deleteTask", id, <<>>, clock)
        /\ UNCHANGED <<clock, uuidCount, issued>>

BeginGetTasks(p) ==
    /\ Begin(p, "getTasks", UnknownId, <<>>, clock)
    /\ UNCHANGED <<clock, uuidCount, issued>>

\* loadTasks: a task file that is not there is created by saveTasks([]); a
\* file that holds part of a document does not parse.
Load(p) ==
    /\ procs[p].pc = "load"
    /\ procs' = [procs EXCEPT ![p] =
                    IF ~Exists(taskFiles[TasksPath])
                    THEN [@ EXCEPT !.pc = "open", !.buf = <<>>, !.creating = TRUE]
                    ELSE IF ~Whole
                    THEN [@ EXCEPT !.pc = "done", !.err = "Invalid JSON"]
                    ELSE AfterLoad(@, Content(taskFiles[TasksPath]))]
    /\ UNCHANGED <<configFile, globalFile, dirs, server, client, taskFiles, clock, uuidCount, issued, calls, last,
                   tempFile, partial>>

\* writeFileSync(tempPath, ...) opens the temporary file: it is created or
\* truncated.  A process that has the same file open no longer writes alone.
OpenTemp(p) ==
    /\ procs[p].pc = "open"
    /\ tempFile' = File(<<>>)
    /\ partial' = partial \cup {"temp"}
    /\ procs' = [q \in Procs |->
                    IF q = p THEN [procs[q] EXCEPT !.pc = "write", !.fd = "temp",
                                                   !.clean = TRUE]
                    ELSE IF procs[q].fd = "temp" THEN [procs[q] EXCEPT !.clean = FALSE]
                    ELSE procs[q]]
    /\ UNCHANGED <<configFile, globalFile, dirs, server, client, taskFiles, clock, uuidCount, issued, calls, last>>

\* The files after a writer has written its document to the file it has
\* open.  The file is wherever a rename has taken it since: still the
\* temporary file, the task file, or unlinked.  Written alone the document
\* is whole; mixed with what another process wrote to the same file the
\* outcome is either.
Written(proc, whole) ==
    LET doc == IF whole THEN JsonArray(proc.buf) ELSE <<>>
        rest(f) == IF whole THEN partial \ {f} ELSE partial \cup {f}
    IN  IF proc.fd = "temp"
        THEN [temp |-> File(doc), tasks |-> taskFiles, partial |-> rest("temp")]
        ELSE IF proc.fd = "final"
        THEN [temp |-> tempFile,
              tasks |-> [taskFiles EXCEPT ![TasksPath] = File(doc)],
              partial |-> rest("final")]
        ELSE [temp |-> tempFile, tasks |-> taskFiles, partial |-> partial]

\* Mutant of WriteTemp: the change is applied again to the task file as it
\* is at the time of the write.
WriteTempMerged(p) ==
    /\ procs[p].pc = "write"
    /\ \E whole \in {TRUE, procs[p].clean} :
           LET current == IF Exists(taskFiles[TasksPath]) /\ Whole /\ ~procs[p].creating
                          THEN Mutated(procs[p], Content(taskFiles[TasksPath]))
                          ELSE procs[p].buf
               w == Written([procs[p] EXCEPT !.buf = current], whole)
           IN  /\ tempFile' = w.temp
               /\ taskFiles' = w.tasks
               /\ partial' = w.partial
    /\ procs' = [q \in Procs |->
                    IF q = p THEN [procs[q] EXCEPT !.pc = "rename", !.fd = "none"]
                    ELSE IF procs[q].fd = procs[p].fd
                    THEN [procs[q] EXCEPT !.clean = FALSE]
                    ELSE procs[q]]
    /\ UNCHANGED <<configFile, globalFile, dirs, server, client, clock, uuidCount, issued, calls, last>>

\* writeFileSync(tempPath, content) writes JSON.stringify(tasks) and closes.
WriteTemp(p) ==
    /\ procs[p].pc = "write"
    /\ \E whole \in {TRUE, procs[p].clean} :
           LET w == Written(procs[p], whole)
           IN  /\ tempFile' = w.temp
               /\ taskFiles' = w.tasks
               /\ partial' = w.partial
    /\ procs' = [q \in Procs |->
                    IF q = p THEN [procs[q] EXCEPT !.pc = "rename", !.fd = "none"]
                    ELSE IF procs[q].fd = procs[p].fd
                    THEN [procs[q] EXCEPT !.clean = FALSE]
                    ELSE procs[q]]
    /\ UNCHANGED <<configFile, globalFile, dirs, server, client, clock, uuidCount, issued, calls, last>>

\* renameSync(tempPath, tasksPath): ENOENT when the temporary file is gone.
\* The file that was the task file is unlinked, and a writer that has the
\* temporary file open now writes to the task file.  A process that loaded
\* and has not renamed yet is overtaken.
Rename(p) ==
    /\ procs[p].pc = "rename"
    /\ IF ~Exists(tempFile)
       THEN /\ procs' = [procs EXCEPT ![p].pc = "done", ![p].err = "ENOENT"]
            /\ UNCHANGED <<taskFiles, tempFile, partial>>
       ELSE /\ taskFiles' = [taskFiles EXCEPT ![TasksPath] = tempFile]
            /\ tempFile' = Absent
            /\ partial' = IF "temp" \in partial THEN {"final"} ELSE {}
            /\ procs' = [q \in Procs |->
                    IF q = p
                    THEN IF procs[q].creating
                         THEN AfterLoad(procs[q], <<>>)
                         ELSE [procs[q] EXCEPT !.pc = "done"]
                    ELSE [procs[q] EXCEPT
                            !.fd = IF @ = "temp" THEN "final"
                                   ELSE IF @ = "final" THEN "unlinked" ELSE @,
                            !.overtakenBy =
                                IF /\ procs[q].pc \in {"open", "write", "rename"}
                                   /\ ~procs[q].creating
                                   /\ ~procs[p].creating
                                THEN @ \cup {p} ELSE @]]
    /\ UNCHANGED <<configFile, globalFile, dirs, server, client, clock, uuidCount, issued, calls, last>>

\* The process dies between two steps of a call; a file it was writing
\* stays as it is.
Crash(p) ==
    /\ procs[p].pc \in {"load", "open", "write", "rename"}
    /\ procs' = [procs EXCEPT ![p].pc = "crashed", ![p].crashedAt = procs[p].pc,
                              ![p].fd = "none"]
    /\ UNCHANGED <<configFile, globalFile, dirs, server, client, taskFiles, clock, uuidCount, issued, calls, last,
                   tempFile, partial>>

InitSteps ==
    /\ clock = 0
    /\ calls = 0
    /\ \/ /\ configFile = ConfiguredDisk.config
          /\ taskFiles = ConfiguredDisk.tasks
          /\ uuidCount = 0
          /\ issued = {}
       \/ /\ configFile = SeededDisk.config
          /\ taskFiles = SeededDisk.tasks
          /\ uuidCount = 2
          /\ issued = {1, 2}
    /\ last = NoCall([config |-> configFile, tasks |-> taskFiles,
                      global |-> Absent], issued)
    /\ globalFile = Absent
    /\ tempFile = Absent
    /\ partial = {}
    /\ procs = [p \in Procs |-> IdleProc]
    /\ NoWeb

NextSteps ==
    \E p \in Procs :
        \/ BeginCreateTask(p)
        \/ BeginDeleteTask(p)
        \/ BeginGetTasks(p)
        \/ Load(p)
        \/ OpenTemp(p)
        \/ WriteTemp(p)
        \/ Rename(p)
        \/ Crash(p)

SpecSteps == InitSteps /\ [][NextSteps]_vars

----------------------------------------------------------------------------
\* The requests in flight in one server process.  The two slots of procs
\* are two HTTP requests of the web server.  The event loop runs the
\* callback of one request until it returns or awaits: a request takes a
\* step only while every other request is in no callback or is suspended at
\* an await.  handleApi awaits parseBody(req) in POST /api/tasks, before it
\* calls the engine; GET and DELETE await nothing; the store calls
\* existsSync, readFileSync, writeFileSync and renameSync.

\* Mutant of Awaits: every file system call is awaited.
AwaitsFileCalls(pc) == pc \in {"body", "load", "open", "write", "rename"}

\* The request is suspended at an await when it is at pc.
Awaits(pc) == pc = "body"

\* The event loop can run a callback of request r.
LoopFree(r) ==
    \A q \in Procs \ {r} : procs[q].pc \in {"idle", "done"} \/ Awaits(procs[q].pc)

\* POST /api/tasks arrives: the handler runs up to await parseBody(req).
PostTasksArrives(r) ==
    /\ LoopFree(r)
    /\ calls < MaxCalls
    /\ procs[r].pc \in {"idle", "done"}
    /\ procs' = [q \in Procs |->
                    IF q = r
                    THEN [IdleProc EXCEPT !.pc = "body", !.op = "createTask"]
                    ELSE [procs[q] EXCEPT !.overtakenBy = @ \ {r}]]
    /\ calls' = calls + 1
    /\ UNCHANGED <<configFile, globalFile, dirs, server, client, taskFiles, clock, uuidCount, issued,
                   last, tempFile, partial>>

\* The body is read: the handler goes on, createTask builds the task and
\* addTask is about to load.
BodyParsed(r) ==
    /\ LoopFree(r)
    /\ procs[r].pc = "body"
    /\ \E now \in Times :
           LET task == createTask(FreshDisk, [title |-> "A"], now, uuidCount).ret
           IN  /\ procs' = [procs EXCEPT ![r].pc = "load", ![r].id = task[1].id,
                                         ![r].task = task, ![r].now = now]
               /\ clock' = now
               /\ uuidCount' = uuidCount + 1
               /\ issued' = issued \cup {task[1].id}
    /\ UNCHANGED <<configFile, globalFile, dirs, server, client, taskFiles, calls, last, tempFile,
                   partial>>

\* DELETE /api/tasks/:id arrives: the handler calls deleteTask at once.
DeleteArrives(r) ==
    /\ LoopFree(r)
    /\ BeginDeleteTask(r)

\* GET /api/tasks arrives: the handler calls getTasks at once.
GetTasksArrives(r) ==
    /\ LoopFree(r)
    /\ BeginGetTasks(r)

NextLoop ==
    \E r \in Procs :
        \/ PostTasksArrives(r)
        \/ BodyParsed(r)
        \/ DeleteArrives(r)
        \/ GetTasksArrives(r)
        \/ LoopFree(r) /\ Load(r)
        \/ LoopFree(r) /\ OpenTemp(r)
        \/ LoopFree(r) /\ WriteTemp(r)
        \/ LoopFree(r) /\ Rename(r)

SpecLoop == InitSteps /\ [][NextLoop]_vars

----------------------------------------------------------------------------
\* Properties.  They speak about the last call: the collection stored before
\* it (PreStored), its arguments and result (last), the collection stored
\* after it (Stored).

PreStored == StoredOf(last.pre)

\* The call returned a task.
ReturnedTask == last.err = "none" /\ Len(last.ret) = 1

\* The slot findIndex selects for the id of the last call, before the call.
PreIndex == FindIndex(PreStored, last.id)

\* An optional argument was left out.
Omitted(input, k) == Get(input, k) = UNDEF

\* The adapter refused the request before it called the engine.
AdapterRejections == {"Title required", "Column required", "Invalid arguments"}

\* The engine method op was called.
Reached(op) == last.op = op /\ last.err \notin AdapterRejections

C2_EmptyTitleRejected ==
    (last.op = "createTask" /\ Falsy(Get(last.input, "title")))
        => /\ last.err # "none"
           /\ Stored = PreStored

\* C3: moveTask with a column outside the four fails with the validation
\* error, for known and unknown ids, writes no file and leaves the disk as
\* it was.
C3_MoveTaskInvalidColumn ==
    (Reached("moveTask") /\ last.column \notin ColumnType)
        => /\ last.err = "Invalid column"
           /\ last.ret = <<>>
           /\ ~last.wrote
           /\ Disk = last.pre

\* C3 witness: moveTask of a stored task to a column that does not exist.
C3_Witness ==
    /\ Reached("moveTask") /\ last.column \notin ColumnType
    /\ PreIndex # 0
    /\ last.err = "Invalid column"

\* C4: deleteTask of an id no task has returns false and leaves the
\* collection; of an id a task has it returns true, removes exactly that
\* entry, and getTask of the id finds nothing afterwards.
C4_DeleteTask ==
    Reached("deleteTask") =>
        IF PreIndex = 0
        THEN ~last.bool /\ Stored = PreStored
        ELSE /\ last.bool
             /\ Stored = Splice(PreStored, PreIndex)
             /\ FindIndex(Stored, last.id) = 0

\* C5: updateTask never changes the id, the column or createdAt of the task.
C5_UpdateTaskKeepsIdentity ==
    (Reached("updateTask") /\ ReturnedTask)
        => /\ Get(Stored[PreIndex], "id") = Get(PreStored[PreIndex], "id")
           /\ Get(Stored[PreIndex], "column") = Get(PreStored[PreIndex], "column")
           /\ Get(Stored[PreIndex], "createdAt") = Get(PreStored[PreIndex], "createdAt")

\* C6: every stored task has updatedAt >= createdAt.
C6_UpdatedNotBeforeCreated ==
    \A i \in 1..Len(Stored) : Stored[i].updatedAt >= Stored[i].createdAt

\* C7: after a successful updateTask or moveTask the task's updatedAt is the
\* time of the call, not smaller than before, and its createdAt is as before.
C7_UpdateRefreshesUpdatedAt ==
    ((Reached("updateTask") \/ Reached("moveTask")) /\ ReturnedTask)
        => /\ Stored[PreIndex].updatedAt = last.now
           /\ last.ret[1].updatedAt = last.now
           /\ Stored[PreIndex].updatedAt >= PreStored[PreIndex].updatedAt
           /\ Stored[PreIndex].createdAt = PreStored[PreIndex].createdAt

\* C8: every stored task has a column among the four and a priority among
\* the three.
C8_EnumeratedValues ==
    \A i \in 1..Len(Stored) :
        /\ Get(Stored[i], "column") \in ColumnType
        /\ Get(Stored[i], "priority") \in Priority

\* C9: moveTask of a stored task to any of the four columns succeeds, and
\* the task stored under that id is then in the target column, whatever
\* column it was in.
C9_AnyColumnToAnyColumn ==
    (Reached("moveTask") /\ last.column \in ColumnType /\ PreIndex # 0)
        => /\ ReturnedTask
           /\ last.ret[1].column = last.column
           /\ Len(Stored) = Len(PreStored)
           /\ FindIndex(Stored, last.id) = PreIndex
           /\ Stored[PreIndex].column = last.column

\* C9 witness: a task moved backward from done to backlog, two stages skipped.
C9_Witness ==
    /\ Reached("moveTask") /\ PreIndex # 0 /\ ReturnedTask
    /\ Get(PreStored[PreIndex], "column") = "done"
    /\ last.column = "backlog"
    /\ Stored[PreIndex].column = "backlog"

\* C10: moveToReview(id) and completeTask(id) return what moveTask(id,
\* "review") and moveTask(id, "done") return from the same disk at the same
\* time and leave the same disk: the task in review or done for a known id,
\* null and the collection as it was for an unknown one.
C10_ConvenienceWrappers ==
    \A w \in {<<"moveToReview", "review">>, <<"completeTask", "done">>} :
        Reached(w[1]) =>
            LET m == moveTask(last.pre, last.id, w[2], last.now)
            IN  /\ last.ret = m.ret
                /\ last.err = m.err
                /\ Disk = m.disk
                /\ PreIndex # 0 => /\ ReturnedTask
                                   /\ last.ret[1].column = w[2]
                                   /\ Stored[PreIndex].column = w[2]
                /\ PreIndex = 0 => last.ret = <<>> /\ Stored = PreStored

\* C10 witness: moveToReview of a stored task that was not in review.
C10_Witness ==
    /\ Reached("moveToReview") /\ PreIndex # 0 /\ ReturnedTask
    /\ Get(PreStored[PreIndex], "column") # "review"
    /\ Stored[PreIndex].column = "review"

\* C11: getStats returns exactly the four keys backlog, todo, review and
\* done, each a count of zero or more, and the four counts add up to the
\* number of stored tasks.
C11_GetStats ==
    Reached("getStats") =>
        /\ last.err = "none"
        /\ DOMAIN last.value = ColumnType
        /\ \A c \in ColumnType : last.value[c] >= 0
        /\ last.value["backlog"] + last.value["todo"] + last.value["review"]
               + last.value["done"] = Len(Stored)

\* The positions of the tasks of a collection that are in a column.
InColumn(tasks, column) ==
    {i \in 1..Len(tasks) : Get(tasks[i], "column") = column}

\* list holds the tasks of the collection at the positions, in their order.
ListsInOrder(list, tasks, positions) ==
    /\ Len(list) = Cardinality(positions)
    /\ \A i \in positions :
           list[Cardinality({j \in positions : j <= i})] = tasks[i]

\* C12: getTasks() returns the stored collection, whole and in stored order;
\* getTasks(c) returns the stored tasks whose column is c and no other task,
\* in stored order; neither changes the stored collection.
C12_GetTasks ==
    Reached("getTasks") =>
        /\ last.err = "none"
        /\ last.column = UNDEF => last.value = PreStored
        /\ last.column # UNDEF =>
               ListsInOrder(last.value, PreStored, InColumn(PreStored, last.column))
        /\ Stored = PreStored

\* C12 witness: a filter that selects the second of two stored tasks.
C12_Witness ==
    /\ Reached("getTasks") /\ last.column \in ColumnType
    /\ Len(PreStored) = 2
    /\ InColumn(PreStored, last.column) = {2}
    /\ last.value = <<PreStored[2]>>

\* C13: getTasksByColumn returns four lists, one per column, that partition
\* the stored collection: every stored task is in the list of its column
\* and in no other, and each list is in stored order.
C13_GetTasksByColumn ==
    Reached("getTasksByColumn") =>
        /\ last.err = "none"
        /\ DOMAIN last.value = ColumnType
        /\ \A c \in ColumnType :
               ListsInOrder(last.value[c], Stored, InColumn(Stored, c))
        /\ Len(last.value["backlog"]) + Len(last.value["todo"])
               + Len(last.value["review"]) + Len(last.value["done"]) = Len(Stored)

\* C14: with an id of no stored task, getTask, updateTask and moveTask to
\* one of the four columns return null and raise no error, deleteTask
\* returns false, and the stored collection is as it was.
C14_UnknownId ==
    \A op \in {"getTask", "updateTask", "moveTask", "deleteTask"} :
        (Reached(op) /\ PreIndex = 0 /\ (op = "moveTask" => last.column \in ColumnType))
            => /\ last.err = "none"
               /\ last.ret = <<>>
               /\ ~last.bool
               /\ Stored = PreStored

\* C14 witness: updateTask with a new title for the id of a task deleted
\* earlier, on a board that holds another task.
C14_Witness ==
    /\ Reached("updateTask") /\ PreIndex = 0
    /\ last.id \in last.preIssued
    /\ ~Omitted(last.input, "title")
    /\ Len(PreStored) > 0
    /\ last.ret = <<>>

\* Two tasks with the same value under every property name; a property that
\* is not there reads as undefined.
SameTask(a, b) ==
    \A k \in DOMAIN a \cup DOMAIN b :
        IF k \in IntegerProps
        THEN k \in DOMAIN a /\ k \in DOMAIN b /\ a[k] = b[k]
        ELSE Get(a, k) = Get(b, k)

\* The last call succeeded in creating a task.
CreatedTask ==
    last.op = "createTask" /\ ReturnedTask

\* The last call succeeded in deleting a task.
DeletedTask ==
    last.op = "deleteTask" /\ last.bool

\* C16: the stored collection keeps the order of creation through every
\* call: a created task goes behind all the others, an updated or moved
\* task keeps its place, a deleted task leaves the others in their order.
C16_InsertionOrder ==
    /\ CreatedTask =>
           /\ Len(Stored) = Len(PreStored) + 1
           /\ \A i \in 1..Len(PreStored) : Stored[i] = PreStored[i]
           /\ SameTask(Stored[Len(Stored)], last.ret[1])
    /\ DeletedTask =>
           /\ Len(Stored) = Len(PreStored) - 1
           /\ \A i \in 1..Len(Stored) :
                  Stored[i] = PreStored[IF i < PreIndex THEN i ELSE i + 1]
    /\ (~CreatedTask /\ ~DeletedTask) =>
           /\ Len(Stored) = Len(PreStored)
           /\ \A i \in 1..Len(Stored) : i # PreIndex => Stored[i] = PreStored[i]
           /\ (PreIndex # 0 /\ ReturnedTask) => SameTask(Stored[PreIndex], last.ret[1])

\* C16 witness: a task created on a board of two or more tasks is stored
\* behind them.
C16_Witness ==
    /\ CreatedTask
    /\ Len(PreStored) >= 2
    /\ SubSeq(Stored, 1, Len(PreStored)) = PreStored
    /\ Stored[Len(Stored)].id = last.ret[1].id

\* C17: no two stored tasks have the same id, and the id of a created task
\* is one that no task had before, deleted tasks included.
C17_UniqueIds ==
    /\ \A i, j \in 1..Len(Stored) :
           i # j => Get(Stored[i], "id") # Get(Stored[j], "id")
    /\ CreatedTask =>
           /\ last.ret[1].id \notin last.preIssued
           /\ \A i \in 1..Len(PreStored) : PreStored[i].id # last.ret[1].id

\* Two collections of the same length with the same task at every place.
SameTasks(a, b) ==
    /\ Len(a) = Len(b)
    /\ \A i \in 1..Len(a) : SameTask(a[i], b[i])

\* C15: loadTasks right after saveTasks(collection) returns the collection
\* that was saved: as many tasks, in the same order, every property with the
\* same value; and saveTasks of the collection that loadTasks has just
\* returned leaves the stored collection as it was.
C15_RoundTrip ==
    [][ /\ (last.op = "saveTasks" /\ last'.op = "loadTasks")
            => (last'.err = "none" /\ SameTasks(last'.value, last.value))
        /\ (last.op = "loadTasks" /\ last'.op = "saveTasks" /\ last'.value = last.value)
            => (last'.err = "none" /\ Stored' = Stored) ]_vars

\* C15 witness: three tasks loaded in the second call of a run; they were
\* saved in the first, one of them with an empty title and another with an
\* undefined priority.
C15_Witness ==
    /\ last.op = "loadTasks" /\ calls = 2
    /\ Len(last.value) = 3
    /\ \E i \in 1..3 : Get(last.value[i], "title") = ""
    /\ \E i \in 1..3 : "priority" \notin DOMAIN last.value[i]

\* The ids of the tasks in the task file.
StoredIds == {Get(Stored[i], "id") : i \in 1..Len(Stored)}

\* C18: when a process has crashed at a step of saveTasks and no other
\* process is in a call, the task file holds a whole document, which a later
\* loadTasks parses; when no other process made a call at all, that document
\* is the collection from before the call (no file, when the call was
\* creating it) or the collection the call was saving.
C18_CrashAtomicity ==
    \A p \in Procs :
        (/\ procs[p].pc = "crashed"
         /\ procs[p].crashedAt \in {"open", "write", "rename"}
         /\ \A q \in Procs \ {p} : procs[q].pc \in {"idle", "done", "crashed"})
            => /\ Whole
               /\ (\A q \in Procs \ {p} : procs[q].pc = "idle")
                      => taskFiles[TasksPath] \in
                            { IF procs[p].creating THEN Absent
                              ELSE File(procs[p].loaded),
                              File(JsonArray(procs[p].buf)) }

\* C19: with processes that read and write the same task file and the same
\* temporary file, no loadTasks fails to parse what it reads and no
\* saveTasks fails: every call that ended, ended without an error.
C19_SharedTemp ==
    \A p \in Procs : procs[p].err = "none"

\* Process b loaded before process a renamed, the task a created not yet in
\* what it loaded, and saved after a; both calls returned.
LostUpdate(a, b) ==
    /\ a # b
    /\ a \in procs[b].overtakenBy
    /\ \A i \in 1..Len(procs[b].loaded) : procs[b].loaded[i].id # procs[a].id
    /\ procs[a].pc = "done" /\ procs[a].err = "none"
    /\ procs[a].op = "createTask"
    /\ procs[b].pc = "done" /\ procs[b].err = "none"
    /\ procs[b].op \in {"createTask", "deleteTask"}

\* C20: when one call loaded before the task another call created was
\* saved, and saved itself after that call, both returning without an error
\* (load A, load B, save A, save B), the task file holds what the
\* later saver made of the collection it had loaded: its own change is
\* there and the task the other call created is not.
C20_LostUpdate ==
    \A a, b \in Procs :
        LostUpdate(a, b)
            => /\ Whole
               /\ Stored = JsonArray(procs[b].buf)
               /\ procs[a].id \notin StoredIds
               /\ procs[b].op = "createTask" => procs[b].id \in StoredIds
               /\ procs[b].op = "deleteTask" => procs[b].id \notin StoredIds

\* C20 witness: two createTask calls that both loaded the same two tasks
\* and both returned; the task file holds three tasks, not four.
C20_Witness ==
    \E a, b \in Procs :
        /\ LostUpdate(a, b)
        /\ procs[b].op = "createTask"
        /\ procs[a].loaded = procs[b].loaded
        /\ Len(procs[a].loaded) = 2
        /\ Len(Stored) = 3

\* The request is between the load and the end of its engine operation.
InOperation(proc) == proc.pc \in {"load", "open", "write", "rename"}

\* C21: of the requests one process handles, at most one is inside its
\* engine operation; while it is, no other request takes a step; no
\* operation fails; and the rename that ends an operation finds the task
\* file as the operation loaded it and leaves the collection the operation
\* made of it, so the stored collection is that of the operations one
\* after another, in the order they end.
C21_RunToCompletion ==
    [][ \A r \in Procs :
          /\ procs'[r].err = "none"
          /\ InOperation(procs[r])
                => /\ \A q \in Procs \ {r} :
                          /\ ~InOperation(procs[q])
                          /\ procs'[q].pc = procs[q].pc
                   /\ Whole
          /\ (/\ procs[r].pc = "rename" /\ ~procs[r].creating
              /\ procs'[r].pc = "done")
                => /\ Stored = procs[r].loaded
                   /\ Stored' = JsonArray(Mutated(procs[r], procs[r].loaded))
                   /\ Whole' ]_vars

\* C21 witness: two POST /api/tasks requests of the process have ended,
\* the second having loaded the task of the first, and both tasks are
\* stored.
C21_Witness ==
    \E a, b \in Procs :
        /\ a # b
        /\ procs[a].pc = "done" /\ procs[a].op = "createTask"
        /\ procs[b].pc = "done" /\ procs[b].op = "createTask"
        /\ \E i \in 1..Len(procs[b].loaded) : procs[b].loaded[i].id = procs[a].id
        /\ {procs[a].id, procs[b].id} \subseteq StoredIds
        /\ Len(Stored) = Len(procs[a].loaded) + 2

\* C22: loadTasks on a project with no task file returns the empty
\* collection and leaves a task file that holds the empty collection; the
\* loadTasks that follows returns the empty collection again and writes
\* nothing.
C22_LoadCreatesEmpty ==
    [][ /\ (last'.op = "loadTasks" /\ ~Exists(taskFiles["tasks.json"]))
            => /\ last'.err = "none"
               /\ last'.value = <<>>
               /\ taskFiles'["tasks.json"] = File(<<>>)
        /\ (last.op = "loadTasks" /\ last.wrote /\ last'.op = "loadTasks")
            => /\ last'.err = "none"
               /\ last'.value = <<>>
               /\ ~last'.wrote
               /\ taskFiles' = taskFiles ]_vars

\* C22 witness: the second call of a run is a loadTasks that wrote nothing
\* and read the empty collection from a task file that the first call
\* found missing.
C22_Witness ==
    /\ last.op = "loadTasks" /\ calls = 2
    /\ ~last.wrote
    /\ last.value = <<>>
    /\ last.pre.tasks["tasks.json"] = File(<<>>)
    /\ issued = {}

\* The messages of a task file error that name the path of the file.
TaskFileErrors(path) ==
    { "Invalid JSON in tasks file: " \o path,
      "Tasks file must contain an array: " \o path }

\* C23: on a task file that is not JSON or not an array, loadTasks and
\* every engine operation that loads fail with an error that names the path
\* of the task file, and the task file is left as it was.
C23_CorruptTaskFile ==
    (/\ last.op # "init"
     /\ last.err \notin AdapterRejections \cup {"Invalid column"}
     /\ ~Structured(last.pre.tasks["tasks.json"]))
        => /\ last.err \in TaskFileErrors("tasks.json")
           /\ taskFiles = last.pre.tasks

\* The fields of a BoardConfig.
ConfigFields == {"boardName", "tasksFile", "createdAt"}

\* C24: loadConfig on a directory with no config file returns the board
\* name Kanban Board, the task file tasks.json and the time of the call as
\* createdAt, and writes a config file with them; the loadConfig that
\* follows a loadConfig returns the same values and leaves the file as it
\* is.
C24_FirstLoadConfig ==
    [][ /\ (last'.op = "loadConfig" /\ ~Exists(configFile))
            => /\ last'.err = "none"
               /\ last'.value = [boardName |-> "Kanban Board",
                                 tasksFile |-> "tasks.json",
                                 createdAt |-> last'.now]
               /\ configFile' = File(last'.value)
        /\ (last.op = "loadConfig" /\ last.err = "none" /\ last'.op = "loadConfig")
            => /\ last'.err = "none"
               /\ last'.value = last.value
               /\ configFile' = configFile ]_vars

\* C24 witness: the second loadConfig of a run returns the createdAt the
\* first one wrote, a time later than that of any file there was.
C24_Witness ==
    /\ last.op = "loadConfig" /\ calls = 2
    /\ last.err = "none"
    /\ last.value = [boardName |-> "Kanban Board", tasksFile |-> "tasks.json",
                     createdAt |-> 1]
    /\ configFile = last.pre.config

\* C25: loadConfig of a config file that holds a mapping returns a config
\* in which all three fields are defined: the stored value of a field the
\* mapping has, the default of a field it lacks.
C25_ConfigMerge ==
    (/\ last.op = "loadConfig"
     /\ Exists(last.pre.config) /\ Structured(last.pre.config))
        => /\ last.err = "none"
           /\ \A f \in ConfigFields :
                  /\ f \in DOMAIN last.value
                  /\ f \in DOMAIN Content(last.pre.config)
                         => last.value[f] = Content(last.pre.config)[f]
                  /\ (f \notin DOMAIN Content(last.pre.config)
                         /\ f \in DOMAIN DEFAULT_CONFIG)
                         => last.value[f] = DEFAULT_CONFIG[f]

\* C26: loadConfig of a config file whose document is no mapping fails
\* with the parse error that names the config file, returns no config and
\* leaves the file as it was.
C26_ConfigParseError ==
    (/\ last.op = "loadConfig"
     /\ Exists(last.pre.config) /\ ~Structured(last.pre.config))
        => /\ last.err = "Failed to parse config file: " \o CONFIG_FILENAME
           /\ last.value = <<>>
           /\ configFile = last.pre.config

\* C27: loadConfig, updateConfig and PUT /api/config leave the createdAt
\* of a config file as it is.
C27_CreatedAtSetOnce ==
    (/\ last.op \in {"loadConfig", "updateConfig", "putConfig", "getConfig"}
     /\ Exists(last.pre.config) /\ Structured(last.pre.config)
     /\ "createdAt" \in DOMAIN Content(last.pre.config))
        => /\ Exists(configFile) /\ Structured(configFile)
           /\ "createdAt" \in DOMAIN Content(configFile)
           /\ Content(configFile).createdAt = Content(last.pre.config).createdAt

\* C28: updateConfig returns the config loadConfig returned before, with
\* the given fields replaced and no other field changed; the loadConfig
\* that follows returns a config with the same values; and the loadConfig
\* that follows saveConfig(c) returns the board name and the task file of c.
C28_UpdateConfig ==
    [][ /\ (last'.op = "updateConfig" /\ last'.err = "none")
            => LET current == loadConfig(Disk, last'.now).config
               IN  /\ DOMAIN last'.value = DOMAIN current \cup DOMAIN last'.input
                   /\ \A f \in DOMAIN last'.value :
                          last'.value[f] = IF f \in DOMAIN last'.input
                                           THEN last'.input[f] ELSE current[f]
        /\ (last.op = "updateConfig" /\ last.err = "none" /\ last'.op = "loadConfig")
            => /\ last'.err = "none"
               /\ SameTask(last'.value, last.value)
        /\ (last.op = "saveConfig" /\ last'.op = "loadConfig")
            => /\ last'.err = "none"
               /\ last'.value.boardName = last.input.boardName
               /\ last'.value.tasksFile = last.input.tasksFile ]_vars

\* C28 witness: loadConfig returns the board name and the task file that
\* the updateConfig before it was given.
C28_Witness ==
    /\ last.op = "loadConfig" /\ calls = 2
    /\ last.err = "none"
    /\ Get(last.value, "boardName") = "B"
    /\ Get(last.value, "tasksFile") = "custom-tasks.json"
    /\ "createdAt" \in DOMAIN last.value

\* The registry file as it is stored.
StoredRegistry == IF Exists(globalFile) THEN Content(globalFile) ELSE EmptyObject

\* C29: from no registry, after any setLastProjectPath calls the stored
\* recentProjects has no path twice, has at most 10 entries, and begins with
\* the stored lastProjectPath.
C29_RegistryInvariant ==
    LET recent == RecentOf(StoredRegistry)
    IN  /\ \A i, j \in 1..Len(recent) : recent[i] = recent[j] => i = j
        /\ Len(recent) <= MaxRecentProjects
        /\ Exists(globalFile)
               => /\ Len(recent) >= 1
                  /\ recent[1] = Get(StoredRegistry, "lastProjectPath")

\* C29 witness: a path that is not in a full list was activated, and the
\* list is full still.
C29_Witness ==
    /\ last.op = "setLastProjectPath"
    /\ Exists(last.pre.global)
    /\ Len(Content(last.pre.global).recentProjects) = MaxRecentProjects
    /\ \A i \in 1..MaxRecentProjects :
           Content(last.pre.global).recentProjects[i] # last.input.path
    /\ Len(RecentOf(StoredRegistry)) = MaxRecentProjects

\* The list the registry holds after path is activated on the list prev.
AfterActivation(prev, path) ==
    LET list == <<path>> \o SelectSeq(prev, LAMBDA x : x # path)
    IN  [i \in 1..(IF Len(list) < MaxRecentProjects THEN Len(list)
                   ELSE MaxRecentProjects) |-> list[i]]

\* C30: after setLastProjectPath(p), getLastProjectPath returns p and
\* getRecentProjects returns p followed by the list there was without p, in
\* the order it had, cut to 10 entries.
C30_SetLastProjectPath ==
    [][ /\ (last.op = "setLastProjectPath" /\ last'.op = "getLastProjectPath")
            => last'.value = last.input.path
        /\ (last.op = "setLastProjectPath" /\ last'.op = "getRecentProjects")
            => last'.value =
                 AfterActivation(IF Exists(last.pre.global)
                                 THEN Content(last.pre.global).recentProjects
                                 ELSE <<>>,
                                 last.input.path) ]_vars

\* C30 witness: after /a, /b, /c were activated, /a was activated again
\* and getRecentProjects returns /a, /c, /b.
C30_Witness ==
    /\ last.op = "getRecentProjects" /\ calls = 2
    /\ last.value = <<"/a", "/c", "/b">>

\* C37: when the registry file is there and does not parse,
\* getLastProjectPath, getRecentProjects and setLastProjectPath fail, and
\* the registry file stays as it was.
C37_RegistryFailureSurfaces ==
    (/\ last.op \in {"getLastProjectPath", "getRecentProjects", "setLastProjectPath"}
     /\ Exists(last.pre.global) /\ ~Parses(last.pre.global))
        => /\ last.err # "none"
           /\ globalFile = last.pre.global

\* C38: the board the page shows is the board the last poll that ran was
\* sent: a poll after a change of the stored board renders it, whether or
\* not polls were skipped for an open modal in between.
C38_PollDetects == client.tasks = client.fetched

\* The tools of the MCP server that take a task id.
McpIdTools == {"updateTask", "moveTask", "moveToReview", "completeTask", "deleteTask"}

\* C34: a tool that takes a task id, called with arguments the tool's
\* schema accepts, returns for an id no stored task has the error content
\* that names the id, and the stored collection stays as it was; for the id
\* of a stored task it returns content that is no error and holds the task
\* as it is stored afterwards or, for delete_task, names the id of the task
\* that is stored no longer.
C34_McpIdTools ==
    (last.via = "mcp" /\ last.op \in McpIdTools /\ last.err = "none")
        => IF FindIndex(PreStored, last.id) = 0
           THEN /\ last.value.isError
                /\ last.value.id = last.id
                /\ Stored = PreStored
           ELSE /\ ~last.value.isError
                /\ IF last.op = "deleteTask"
                   THEN /\ last.value.id = last.id
                        /\ FindIndex(Stored, last.id) = 0
                   ELSE /\ FindIndex(Stored, last.id) # 0
                        /\ last.value.task = Stored[FindIndex(Stored, last.id)]

\* C34 witness: delete_task was called twice with the id of a task; the
\* first call removed it and the second returns the error that names the id.
C34_Witness ==
    /\ last.via = "mcp" /\ last.op = "deleteTask" /\ calls = 2
    /\ last.id \in last.preIssued
    /\ last.value.isError /\ last.value.id = last.id
    /\ Len(Stored) = 1

\* C35: when a createTask or deleteTask call of a process returns without
\* an error, the task file holds a whole document in which the task created
\* is and the task deleted is not, so that a read by any process that loads
\* next returns the collection with the change.
C35_DurableOnReturn ==
    [][ \A p \in Procs :
          (/\ procs[p].pc = "rename" /\ ~procs[p].creating
           /\ procs'[p].pc = "done" /\ procs'[p].err = "none")
             => /\ Whole'
                /\ procs[p].op = "createTask" => procs[p].id \in StoredIds'
                /\ procs[p].op = "deleteTask" => procs[p].id \notin StoredIds' ]_vars

\* The registry in the file global.
RegistryDisk(global) == [FreshDisk EXCEPT !.global = global]

\* The path the last call activated.
ActivatedPath ==
    IF last.op = "startWebServer" THEN server.projectPath
    ELSE Resolve(last.input.body.path)

\* The last call bound an engine to a project path.
Activation ==
    \/ last.op = "POST /api/project/select" /\ last.status = 200
    \/ last.op = "startWebServer" /\ last.err = "none" /\ server.projectPath # NULL
    \/ last.op \in {"initializeProject", "runMcpMode"} /\ last.err = "none"

\* C31: after a project selection over HTTP, a start of the web server
\* with a path, an initialisation by the interactive mode and a start of
\* the MCP server, the path is lastProjectPath and the first of
\* recentProjects; and no call takes a path out of recentProjects (the
\* lists here are shorter than the cap).
C31_RegistryFollowsActivation ==
    last.op # "init"
        => /\ Activation
                => /\ getLastProjectPath(RegistryDisk(globalFile)) = ActivatedPath
                   /\ getRecentProjects(RegistryDisk(globalFile)) # <<>>
                   /\ getRecentProjects(RegistryDisk(globalFile))[1] = ActivatedPath
           /\ LET before == getRecentProjects(RegistryDisk(last.pre.global))
                  after  == getRecentProjects(RegistryDisk(globalFile))
              IN  \A i \in 1..Len(before) : \E j \in 1..Len(after) :
                      after[j] = before[i]

\* The last call was a project selection that succeeded.
Selected == last.op = "POST /api/project/select" /\ last.status = 200

\* The collection of the project at projectPath.
CollectionOf(d, projectPath) == StoredOf(View(d, Absent, projectPath))

\* The task file of the project at projectPath: the file its config names.
TaskFileOf(d, projectPath) ==
    LET disk == View(d, Absent, projectPath)
    IN  disk.tasks[Spread(DEFAULT_CONFIG,
                          IF Exists(disk.config) THEN Content(disk.config)
                          ELSE EmptyObject).tasksFile]

HadProject ==
    /\ last.via = "http"
    /\ last.pre.server.board # NULL
    /\ last.pre.server.projectPath # NULL

\* The request fails validation: its body is no JSON, or lacks the title
\* or the column, or names a column that is none of the four.
ValidationFailure(req) ==
    \/ req.route \in BodyRoutes /\ req.text = "malformed"
    \/ req.route = "POST /api/tasks" /\ Falsy(Get(req.body, "title"))
    \/ req.route = "POST /api/tasks/:id/move"
           /\ Get(req.body, "column") \notin ColumnType

\* C33: with a project selected, a request that fails validation is
\* answered with a status from 400 to 499 and an error text; a request that
\* passes it and names the id of no task is answered with 404.
C33_HttpValidation ==
    HadProject
        => /\ ValidationFailure(last.input)
                => /\ last.status \in 400..499
                   /\ "error" \in DOMAIN last.value
           /\ (/\ ~ValidationFailure(last.input)
               /\ last.op \in {"PUT /api/tasks/:id", "DELETE /api/tasks/:id",
                                "POST /api/tasks/:id/move"}
               /\ FindIndex(CollectionOf(last.pre.dirs, last.pre.server.board),
                            last.id) = 0)
                => last.status = 404

\* The routes that work on the tasks and the config of the project.
TaskRoutes == {"GET /api/board", "GET /api/tasks", "POST /api/tasks",
               "PUT /api/tasks/:id", "DELETE /api/tasks/:id",
               "POST /api/tasks/:id/move"}

ConfigRoutes == {"GET /api/config", "PUT /api/config"}

\* C36: a request that works on the project the server is bound to leaves
\* the config file and the task files of every other project as they were.
C36_ProjectsIsolated ==
    (HadProject /\ last.op \in TaskRoutes \cup ConfigRoutes)
        => LET bound == IF last.op \in ConfigRoutes
                        THEN last.pre.server.projectPath
                        ELSE last.pre.server.board
           IN  \A e \in ProjectPaths \ {bound} : dirs[e] = last.pre.dirs[e]

\* C39: the engine of the web server is bound to the current project
\* path, and there is an engine exactly when there is a current project
\* path.
C39_BoardFollowsPath == server.board = server.projectPath

\* C40: with no engine bound yet, a request to a route other than
\* /api/projects, /api/project/select and /api/project/current is answered
\* with 400 and an error text, and leaves the project directories, the
\* registry and the fields of the server as they were.
C40_NoProjectSelected ==
    (/\ last.via = "http"
     /\ last.pre.server.board = NULL
     /\ last.op \notin ProjectRoutes)
        => /\ last.status = 400
           /\ "error" \in DOMAIN last.value
           /\ dirs = last.pre.dirs
           /\ globalFile = last.pre.global
           /\ server = last.pre.server

\* C40 witness: with no project selected, a second request, POST
\* /api/tasks with a title, was answered with 400.
C40_Witness ==
    /\ last.op = "POST /api/tasks" /\ calls = 2
    /\ last.input.text = "json" /\ Get(last.input.body, "title") = "A"
    /\ last.pre.server.board = NULL /\ last.pre.server.projectPath = NULL
    /\ last.status = 400
    /\ \A e \in ProjectPaths : ~Exists(dirs[e].tasks["tasks.json"])

====
